---- MODULE Spec2Model ----
(***************************************************************************)
(* Puzzle-grid generator (repository iiovo).  The repository holds two     *)
(* near-duplicate applications:                                            *)
(*   variant 1: src/puzzle-ultimate/App.tsx + services/canvasService       *)
(*              (src/unnamed/part_001)                                     *)
(*   variant 2: src/puzzle-ultimate-ikko (2)/App.tsx + utils/canvasUtils.ts*)
(* The model carries both; the variable `variant` says which one runs.     *)
(*                                                                         *)
(* Characters are one-element strings; a text is a sequence of characters. *)
(* The non-ASCII characters of the source's regular expressions are named: *)
(*   "FWCOMMA" = U+FF0C, "DUN" = U+3001, "EMDASH" = U+2014,                *)
(*   "ENDASH" = U+2013.                                                    *)
(***************************************************************************)
EXTENDS Integers, Sequences, FiniteSets, TLC

VARIABLES
    variant,          \* 1 or 2: which of the two applications is running
    images,           \* useState images: the gallery, a sequence of image ids
    files,            \* per image id, what decoding its payload yields
    settings,         \* useState settings (AppSettings)
    sticker,          \* the sticker bitmap: "none" | "ok" | "broken"
    isCancelledRef,   \* useRef(false): the shared cancel flag
    loading,          \* useState loading / isGenerating: the busy indicator
    generatedBlobs,   \* useState generatedBlobs: the pages offered to the user
    runs,             \* the calls of startGeneration / generate
    imp,              \* the call of handleFileSelect / handleFiles
    input,            \* argument of a parseMaskIndices call
    indices,          \* its result
    parsePc,          \* "call" before the call, "done" after it returned
    comb,             \* the call of handleDownload('combine') / combineAndDownload
    dl,               \* the call of handleDownload('zip' | 'parts') / downloadZip / downloadParts
    preview,          \* variant 2: the call of previewOverlay / previewQuality
    names,            \* per gallery position, the file (name + size) the item holds
    urlOf,            \* per gallery position, the version of the object URL the item shows
    urlState,         \* per id and version, what became of the object URL
    db,               \* IndexedDB store "images": per stored id, the stored file
    orderKey,         \* localStorage IMAGE_ORDER_KEY / IMAGES_META_KEY
    isLoaded,         \* variant 2: useState isLoaded
    sess,             \* the page session: restore and the pending gallery handler
    dbMode            \* what a request to the IndexedDB store does at present

vars == <<variant, images, files, settings, sticker, isCancelledRef, loading,
          generatedBlobs, runs, imp, input, indices, parsePc, comb, dl, preview,
          names, urlOf, urlState, db, orderKey, isLoaded, sess, dbMode>>

genVars == <<variant, images, files, settings, sticker, isCancelledRef, loading,
             generatedBlobs, runs, imp>>

parseVars == <<input, indices, parsePc>>

combVars == <<comb, dl, preview>>

storeVars == <<names, urlOf, urlState, db, orderKey, isLoaded, sess, dbMode>>

(***************************************************************************)
(* Bounds of the model.                                                    *)
(***************************************************************************)
MaxLen == 4          \* longest enumerated parseMaskIndices input

(***************************************************************************)
(* Generic helpers.                                                        *)
(***************************************************************************)
Min(a, b) == IF a <= b THEN a ELSE b

Max(a, b) == IF a >= b THEN a ELSE b

Range(s) == {s[k] : k \in 1..Len(s)}

\* Array.prototype.includes
Includes(s, x) == \E k \in 1..Len(s) : s[k] = x

\* Math.ceil(a / b) for a >= 0, b >= 1
CeilDiv(a, b) == (a + b - 1) \div b

RECURSIVE Concat(_)
Concat(ss) == IF ss = <<>> THEN <<>> ELSE Head(ss) \o Concat(Tail(ss))

(***************************************************************************)
(* parseMaskIndices (identical in both variants).                          *)
(***************************************************************************)
\* the character class [,，、\s] of input.split
IsSeparator(c) == c \in {",", "FWCOMMA", "DUN", " "}

\* the character class [~—–] of part.replace
IsRangeMark(c) == c \in {"~", "EMDASH", "ENDASH"}

DigitValue(c) ==
    CASE c = "0" -> 0 [] c = "1" -> 1 [] c = "2" -> 2 [] c = "3" -> 3
      [] c = "4" -> 4 [] c = "5" -> 5 [] c = "6" -> 6 [] c = "7" -> 7
      [] c = "8" -> 8 [] c = "9" -> 9
      [] c \in {"a", "A"} -> 10 [] c \in {"b", "B"} -> 11
      [] c \in {"c", "C"} -> 12 [] c \in {"d", "D"} -> 13
      [] c \in {"e", "E"} -> 14 [] c \in {"f", "F"} -> 15
      [] OTHER -> 99

\* input.split(/[,，、\s]+/): a run of separators ends a part; the
\* text before the first and after the last run is a part too (maybe empty)
RECURSIVE SplitRuns(_, _, _)
SplitRuns(s, cur, inRun) ==
    IF s = <<>> THEN <<cur>>
    ELSE IF IsSeparator(Head(s))
         THEN IF inRun THEN SplitRuns(Tail(s), cur, TRUE)
              ELSE <<cur>> \o SplitRuns(Tail(s), <<>>, TRUE)
         ELSE SplitRuns(Tail(s), Append(cur, Head(s)), FALSE)

\* standardPart.split('-'): every '-' ends a part
RECURSIVE SplitDash(_, _)
SplitDash(s, cur) ==
    IF s = <<>> THEN <<cur>>
    ELSE IF Head(s) = "-" THEN <<cur>> \o SplitDash(Tail(s), <<>>)
         ELSE SplitDash(Tail(s), Append(cur, Head(s)))

\* part.trim()
RECURSIVE TrimLeft(_)
TrimLeft(s) == IF s # <<>> /\ Head(s) = " " THEN TrimLeft(Tail(s)) ELSE s

RECURSIVE TrimRight(_)
TrimRight(s) ==
    IF s # <<>> /\ s[Len(s)] = " " THEN TrimRight(SubSeq(s, 1, Len(s) - 1)) ELSE s

Trim(s) == TrimRight(TrimLeft(s))

\* part.replace(/[~—–]/g, '-')
Standardize(s) == [k \in 1..Len(s) |-> IF IsRangeMark(s[k]) THEN "-" ELSE s[k]]

\* the digits parseInt consumes: the longest prefix of digits of the radix
RECURSIVE DigitPrefix(_, _)
DigitPrefix(s, radix) ==
    IF s # <<>> /\ DigitValue(Head(s)) < radix
    THEN <<Head(s)>> \o DigitPrefix(Tail(s), radix)
    ELSE <<>>

RECURSIVE DigitsValue(_, _, _)
DigitsValue(s, radix, acc) ==
    IF s = <<>> THEN acc
    ELSE DigitsValue(Tail(s), radix, acc * radix + DigitValue(Head(s)))

\* parseInt(string) with no radix argument: leading white space is skipped,
\* a sign is read, a 0x / 0X prefix selects radix 16, the longest prefix of
\* digits is converted and whatever follows it is ignored; NaN without digits
ParseInt(str) ==
    LET s0 == TrimLeft(str)
        signed == s0 # <<>> /\ Head(s0) \in {"+", "-"}
        sign == IF signed /\ Head(s0) = "-" THEN -1 ELSE 1
        s1 == IF signed THEN Tail(s0) ELSE s0
        hex == Len(s1) >= 2 /\ s1[1] = "0" /\ s1[2] \in {"x", "X"}
        radix == IF hex THEN 16 ELSE 10
        s2 == IF hex THEN SubSeq(s1, 3, Len(s1)) ELSE s1
        digits == DigitPrefix(s2, radix)
    IN  IF digits = <<>> THEN [nan |-> TRUE, val |-> 0]
        ELSE [nan |-> FALSE, val |-> sign * DigitsValue(digits, radix, 0)]

\* a range loop that runs from s up to e without ordering the two ends
RangeIndicesForward(s, e) == [k \in 1..(e - s + 1) |-> s + k - 1]

\* for (let k = Math.min(s, e); k <= Math.max(s, e); k++) indices.push(k)
RangeIndices(s, e) == [k \in 1..(Max(s, e) - Min(s, e) + 1) |-> Min(s, e) + k - 1]

\* the body of parts.forEach: what one part pushes onto indices
PartIndices(part0) ==
    LET part == Trim(part0)
        standardPart == Standardize(part)
    IN  IF part = <<>> THEN <<>>
        ELSE IF Includes(standardPart, "-")
        THEN LET rangeParts == SplitDash(standardPart, <<>>)
             IN  IF Len(rangeParts) = 2
                 THEN LET s == ParseInt(rangeParts[1])
                          e == ParseInt(rangeParts[2])
                      IN  IF ~s.nan /\ ~e.nan THEN RangeIndices(s.val, e.val) ELSE <<>>
                 ELSE <<>>
        ELSE LET num == ParseInt(standardPart)
             IN  IF ~num.nan THEN <<num.val>> ELSE <<>>

parseMaskIndices(text) ==
    LET parts == SplitRuns(text, <<>>, FALSE)
    IN  Concat([k \in 1..Len(parts) |-> PartIndices(parts[k])])

(***************************************************************************)
(* Bounds of the generation model.                                         *)
(***************************************************************************)
MaxImages == 4       \* most images the gallery holds
MaxCols == 2         \* largest settings.cols
MaxRows == 2         \* largest explicit settings.groupRows
MaxStart == 2        \* largest settings.startNumber
\* The decode windows, scaled down so that a page of MaxImages cells is
\* wider than the window (the source has CONCURRENCY = 4 in canvasService
\* and CONCURRENCY_LIMIT = 8 in canvasUtils).
CONCURRENCY == 2
CONCURRENCY_LIMIT == 2

(***************************************************************************)
(* Program constants.                                                      *)
(***************************************************************************)
MAX_CANVAS_DIM == 12000            \* startGeneration (variant 1)
SAFE_H == 15500
PREFERRED_CELL_W == 1500
MAX_CANVAS_DIMENSION == 12000      \* canvasService (variant 1)
MAX_SAFE_HEIGHT == 16000
MAX_CANVAS_DIMENSION_IKKO == 8192  \* canvasUtils (variant 2)

Variants == {1, 2}

OpTypes == {"normal", "apply", "repack"}

\* texts of the mask input field used by the generation model
MaskTexts == {<<>>, <<"2">>, <<"1", "-", "2">>}

(***************************************************************************)
(* startGeneration (variant 1) / generate (variant 2): pure parts.         *)
(***************************************************************************)
\* variant 1, "Automatic Group Rows Calculation": cW / aspectRatio with the
\* ratio kept as the fraction aspectW / aspectH
AutoGroupRows(st) ==
    LET cW == IF st.cols * PREFERRED_CELL_W > MAX_CANVAS_DIM
              THEN (MAX_CANVAS_DIM - st.cols * st.gap) \div st.cols
              ELSE PREFERRED_CELL_W
        calculated == ((SAFE_H + st.gap) * st.aspectW)
                          \div (cW * st.aspectH + st.gap * st.aspectW)
    IN  Max(1, calculated)

\* rows per page: variant 1 fits the safe height when groupRows <= 0,
\* variant 2 puts everything on one page when groupRows is not > 0
EffectiveGroupRows(v, st, n) ==
    IF st.groupRows > 0 THEN st.groupRows
    ELSE IF v = 1 THEN AutoGroupRows(st) ELSE CeilDiv(n, st.cols)

\* a filter that takes the position as 1-based
KeptOneBased(mask, startNumber, n) ==
    {i \in 0..(n - 1) : ~Includes(mask, startNumber + i + 1)}

\* positions (0-based) kept by the repack filter
Kept(mask, startNumber, n) ==
    {i \in 0..(n - 1) : ~Includes(mask, startNumber + i)}

RECURSIVE FilterSeq(_, _, _)
\* imgs.filter((_, i) => !mask.includes(startNumber + i)), i counted from `at`
FilterSeq(imgs, keep, at) ==
    IF imgs = <<>> THEN <<>>
    ELSE (IF at \in keep THEN <<Head(imgs)>> ELSE <<>>)
             \o FilterSeq(Tail(imgs), keep, at + 1)

Targets(opType, imgs, mask, startNumber) ==
    IF opType = "repack"
    THEN FilterSeq(imgs, Kept(mask, startNumber, Len(imgs)), 0)
    ELSE imgs

\* Math.ceil(targets.length / batchSize); 0 / 0 is NaN and the loop
\* condition b < NaN is false, so no page is made
TotalBatches(n, batchSize) == IF batchSize = 0 THEN 0 ELSE CeilDiv(n, batchSize)

\* a slice that starts one item early
BatchSliceEarly(targets, b, batchSize) ==
    SubSeq(targets, Max(1, b * batchSize), Min((b + 1) * batchSize, Len(targets)))

\* targets.slice(b * batchSize, Math.min((b + 1) * batchSize, targets.length))
BatchSlice(targets, b, batchSize) ==
    SubSeq(targets, b * batchSize + 1, Min((b + 1) * batchSize, Len(targets)))

\* variant 2: finalApplyMask
ApplyMask(opType, maskText) ==
    opType = "apply" \/ (opType = "normal" /\ Len(maskText) > 0)

(***************************************************************************)
(* drawAsync: the size of the page surface.  The aspect ratio is the       *)
(* fraction aspectW / aspectH and the arithmetic is exact.                 *)
(***************************************************************************)
\* let cellW = 1500; if (cols * cellW > MAX) cellW = floor((MAX - cols * gap) / cols)
\* (variant 1 in drawAsync, variant 2 in calculateCellDimensions)
CellW(v, st) ==
    LET limit == IF v = 1 THEN MAX_CANVAS_DIMENSION ELSE MAX_CANVAS_DIMENSION_IKKO
    IN  IF st.cols * 1500 > limit THEN (limit - st.cols * st.gap) \div st.cols ELSE 1500

\* const cellH = Math.floor(cellW / aspectRatio)
CellH(v, st) == (CellW(v, st) * st.aspectH) \div st.aspectW

\* a surface with a row too many when the last row is full
SurfaceSizeExtraRow(v, st, len) ==
    LET rows == len \div st.cols + 1
        totalH == rows * CellH(v, st) + (rows - 1) * st.gap
        totalW == st.cols * CellW(v, st) + (st.cols - 1) * st.gap
    IN  IF v = 1 /\ totalH > MAX_SAFE_HEIGHT
        THEN [w |-> (totalW * MAX_SAFE_HEIGHT) \div totalH, h |-> MAX_SAFE_HEIGHT]
        ELSE [w |-> totalW, h |-> totalH]

\* canvas.width and canvas.height for a page of len images: variant 1 scales
\* the surface down to MAX_SAFE_HEIGHT, variant 2 sets the size as computed
SurfaceSize(v, st, len) ==
    LET rows == CeilDiv(len, st.cols)
        totalH == rows * CellH(v, st) + (rows - 1) * st.gap
        totalW == st.cols * CellW(v, st) + (st.cols - 1) * st.gap
    IN  IF v = 1 /\ totalH > MAX_SAFE_HEIGHT
        THEN [w |-> (totalW * MAX_SAFE_HEIGHT) \div totalH, h |-> MAX_SAFE_HEIGHT]
        ELSE [w |-> totalW, h |-> totalH]

(***************************************************************************)
(* drawAsync: one cell's draw sequence.                                    *)
(***************************************************************************)
\* an offset that counts pages, not items
GlobalOffsetPageIndex(run) == run.b

\* globalOffset: b * batchSize, the index of the page's first item in targets
GlobalOffset(run) == run.b * run.batchSize

\* a number that forgets the page's global offset
CurrentNumLocal(run, idx) == run.settings.startNumber + idx

\* const currentNum = startNumber + globalOffset + idx
CurrentNum(run, idx) == run.settings.startNumber + GlobalOffset(run) + idx

\* a draw that leaves the cell of a failed decode empty
CellContentNoPlaceholder(v, out) == IF out = "ok" THEN "image" ELSE "blank"

\* what the cell shows for a decode result: "ok" a bitmap, "zero" an image
\* of zero natural size, "fail" no bitmap (variant 1: createImageBitmap and
\* the Image fallback both failed; variant 2: img.decode() rejected),
\* "throws" a decoded image that ctx.drawImage throws on
CellContent(v, out) ==
    IF v = 1
    THEN CASE out = "ok" -> "image" [] out \in {"zero", "throws"} -> "blank"
           [] OTHER -> "placeholder"
    ELSE CASE out = "ok" -> "image" [] out = "throws" -> "blank"
           [] OTHER -> "placeholder"

\* a mask block that ignores applyMask
MaskDrawnAlways(v, run, num) ==
    /\ Includes(run.maskIndices, num)
    /\ \/ run.settings.maskMode = "line"
       \/ run.settings.maskMode = "image" /\ run.sticker = "ok"

\* the "Masking" block: is a line or the sticker drawn on the cell
MaskDrawn(v, run, num) ==
    /\ v = 2 => ApplyMask(run.opType, run.settings.maskIndices)
    /\ Includes(run.maskIndices, num)
    /\ \/ run.settings.maskMode = "line"
       \/ run.settings.maskMode = "image" /\ run.sticker = "ok"

IdleCell == [st |-> "idle", content |-> "none", numbered |-> FALSE, num |-> 0,
             mask |-> FALSE]

DrawCell(v, run, idx, out) ==
    [st |-> "drawn",
     content |-> CellContent(v, out),
     numbered |-> run.settings.showNum,
     num |-> IF run.settings.showNum THEN CurrentNum(run, idx) ELSE 0,
     mask |-> MaskDrawn(v, run, CurrentNum(run, idx))]

\* the draw calls of one cell, in program order: the image or the
\* placeholder, the number, the mask
CellDrawCalls(idx, cell) ==
    (IF cell.content = "blank" THEN <<>> ELSE <<[cell |-> idx, op |-> cell.content]>>)
        \o (IF cell.numbered THEN <<[cell |-> idx, op |-> "number"]>> ELSE <<>>)
        \o (IF cell.mask THEN <<[cell |-> idx, op |-> "mask"]>> ELSE <<>>)

\* draw calls that go layer by layer over the cells
DrawCallsByLayer(v, run, ks, out) ==
    LET calls == [j \in 1..Len(ks) |->
                     CellDrawCalls(ks[j] - 1,
                         DrawCell(v, run, ks[j] - 1, out[run.slices[Len(run.slices)][ks[j]]]))]
        IsNumber(c) == c.op = "number"
        IsMask(c) == c.op = "mask"
        IsContent(c) == c.op \notin {"number", "mask"}
    IN  Concat([j \in 1..Len(ks) |-> SelectSeq(calls[j], IsContent)])
            \o Concat([j \in 1..Len(ks) |-> SelectSeq(calls[j], IsNumber)])
            \o Concat([j \in 1..Len(ks) |-> SelectSeq(calls[j], IsMask)])

\* the draw calls of the cells ks (1-based), each cell's sequence run to its
\* end before the next cell's: the body of the loop has no await
DrawCalls(v, run, ks, out) ==
    Concat([j \in 1..Len(ks) |->
               CellDrawCalls(ks[j] - 1,
                   DrawCell(v, run, ks[j] - 1, out[run.slices[Len(run.slices)][ks[j]]]))])

(***************************************************************************)
(* The state of the 2D context that drawAsync changes: the stack of        *)
(* ctx.save(), the clip region and the shadow, reckoned from the entry of  *)
(* the call (clip: a region narrower than the canvas is set).              *)
(***************************************************************************)
NoCtx == [saved |-> <<>>, clip |-> FALSE, shadow |-> FALSE]

\* one call on the context; "throw" is the drawImage that throws and
\* touches nothing
CtxCall(ctx, op) ==
    CASE op = "save" ->
            [ctx EXCEPT !.saved = Append(@, [clip |-> ctx.clip, shadow |-> ctx.shadow])]
      [] op = "clip" -> [ctx EXCEPT !.clip = TRUE]
      [] op = "shadow" -> [ctx EXCEPT !.shadow = TRUE]
      [] op = "restore" ->
            IF ctx.saved = <<>> THEN ctx
            ELSE [saved |-> SubSeq(ctx.saved, 1, Len(ctx.saved) - 1),
                  clip |-> ctx.saved[Len(ctx.saved)].clip,
                  shadow |-> ctx.saved[Len(ctx.saved)].shadow]
      [] OTHER -> ctx

RECURSIVE CtxCalls(_, _)
CtxCalls(ctx, ops) ==
    IF ops = <<>> THEN ctx ELSE CtxCalls(CtxCall(ctx, Head(ops)), Tail(ops))

\* the image block of a cell: ctx.save(); rect; clip(); drawImage;
\* ctx.restore() -- a drawImage that throws leaves the block before restore
ImageCtxOps(out) ==
    CASE out = "ok" -> <<"save", "clip", "restore">>
      [] out = "throws" -> <<"save", "clip", "throw">>
      [] OTHER -> <<>>

\* the number block: ctx.save(); font, shadow, fillText; ctx.restore()
NumberCtxOps(st) == IF st.showNum THEN <<"save", "shadow", "restore">> ELSE <<>>

\* the calls of one cell on the context state.  Variant 1 has no try around
\* the image block: the exception ends the cell (and the call); variant 2
\* catches it and goes on to the number block.
CellCtxOps(v, st, out) ==
    IF v = 1 /\ out = "throws" THEN ImageCtxOps(out)
    ELSE ImageCtxOps(out) \o NumberCtxOps(st)

(***************************************************************************)
(* One call of startGeneration / generate: its local variables.            *)
(*   pc: "none" not called | "wait50" the 50 ms timer | "yield" the        *)
(*   per-page timer | "sticker" (v2) the sticker preload | "decode" (v1)   *)
(*   Promise.all of a chunk | "delay0" (v1) | "race" (v2) Promise.race |   *)
(*   "drain" (v2) Promise.all(executing) | "toBlob" | "done"               *)
(*   slices, pages: the batches sliced and the pages handed to toBlob so   *)
(*   far; sawCancel: the call ended on reading the cancel flag; alerted:   *)
(*   the alert of the catch block was shown (toBlob reports a failure by   *)
(*   passing null; only a draw call that throws reaches the catch block);  *)
(*   ctx: what the drawAsync call in hand, or the last one, has done to    *)
(*   the context state;                                                    *)
(*   atCancel: how many pages the call had encoded when the cancel button  *)
(*   was first pressed during it, -1 if it was not; log: the draw calls    *)
(*   made on the surface of the page in hand, in the order they were made  *)
(***************************************************************************)
NoSettings == [cols |-> 1, groupRows |-> 0, gap |-> 0, aspectW |-> 1, aspectH |-> 1,
               showNum |-> FALSE, startNumber |-> 1, maskIndices |-> <<>>,
               maskMode |-> "line", quality |-> 80, qualityPreset |-> "0.80"]

NoRun == [pc |-> "none", opType |-> "normal", images |-> <<>>, settings |-> NoSettings,
          sticker |-> "none", targets |-> <<>>, maskIndices |-> <<>>,
          batchSize |-> 0, totalBatches |-> 0, b |-> 0, i |-> 0, cells |-> <<>>,
          slices |-> <<>>, pages |-> <<>>, newBlobs |-> <<>>, nullBlobs |-> 0,
          published |-> FALSE, sawCancel |-> FALSE, alerted |-> FALSE,
          atCancel |-> -1, log |-> <<>>, ctx |-> NoCtx]

Decoding(run) == {k \in 1..Len(run.cells) : run.cells[k].st = "decoding"}

\* v1: isPng = qualityPreset === '1.0'; v2: qualityVal = min(exportQuality, 100),
\* isPng = qualityVal === 100
IsPng(v, st) ==
    IF v = 1 THEN st.qualityPreset = "1.0" ELSE Min(st.quality, 100) = 100

MimeType(v, st) == IF IsPng(v, st) THEN "image/png" ELSE "image/jpeg"

\* the quality argument of toBlob in hundredths; -1 is undefined
QVal(v, st) ==
    IF IsPng(v, st) THEN -1 ELSE IF v = 1 THEN st.quality ELSE Min(st.quality, 100)

\* the page as canvas.toBlob snapshots it
PageOf(run) ==
    [items |-> run.slices[Len(run.slices)],
     offset |-> GlobalOffset(run),
     surface |-> SurfaceSize(variant, run.settings, Len(run.cells)),
     mimeType |-> MimeType(variant, run.settings),
     qVal |-> QVal(variant, run.settings),
     cells |-> [k \in 1..Len(run.cells) |->
                   [drawn |-> run.cells[k].st = "drawn",
                    numbered |-> run.cells[k].numbered,
                    num |-> run.cells[k].num,
                    mask |-> run.cells[k].mask]]]

\* after the page loop: if (!isCancelledRef.current) setGeneratedBlobs(newBlobs);
\* finally setLoading(false)
EndRun(run, c) ==
    [run EXCEPT !.pc = "done", !.cells = <<>>, !.log = <<>>, !.published = ~c,
                !.sawCancel = c]

\* for (b < totalBatches) { if (isCancelledRef.current) break; ...timer
NextBatch(run, c) ==
    IF run.b < run.totalBatches /\ ~c THEN [run EXCEPT !.pc = "yield"]
    ELSE EndRun(run, c)

\* drawAsync returned: if (isCancelledRef.current) break; else canvas.toBlob
AfterDraw(run, c) ==
    IF c THEN EndRun(run, c)
    ELSE [run EXCEPT !.pc = "toBlob", !.pages = Append(@, PageOf(run))]

\* a chunk that starts one decode more than the window
StartChunkWide(run, c) ==
    IF run.i >= Len(run.cells) THEN AfterDraw(run, c)
    ELSE IF c THEN EndRun(run, c)
    ELSE LET limit == Min(run.i + CONCURRENCY + 1, Len(run.cells))
         IN  [run EXCEPT !.pc = "decode",
                         !.cells = [k \in 1..Len(run.cells) |->
                                       IF k - 1 >= run.i /\ k - 1 < limit
                                       THEN [run.cells[k] EXCEPT !.st = "decoding"]
                                       ELSE run.cells[k]]]

\* variant 1, head of `for (i < images.length; i += CONCURRENCY)`:
\* if (isCancelled()) return; else start the chunk's decodes
StartChunk(run, c) ==
    IF run.i >= Len(run.cells) THEN AfterDraw(run, c)
    ELSE IF c THEN EndRun(run, c)
    ELSE LET limit == Min(run.i + CONCURRENCY, Len(run.cells))
         IN  [run EXCEPT !.pc = "decode",
                         !.cells = [k \in 1..Len(run.cells) |->
                                       IF k - 1 >= run.i /\ k - 1 < limit
                                       THEN [run.cells[k] EXCEPT !.st = "decoding"]
                                       ELSE run.cells[k]]]

\* variant 1, chunkIndices: the cells i .. limit - 1 (here counted from 1)
ChunkIndices(run) ==
    [j \in 1..(Min(run.i + CONCURRENCY, Len(run.cells)) - run.i) |-> run.i + j]

\* the decode outcome of the file in cell k (from 1) of the page in hand
OutcomeOf(run, k, out) == out[run.slices[Len(run.slices)][k]]

\* variant 1: the cells of the chunk up to the first whose draw throws
RECURSIVE UpToThrow(_, _, _)
UpToThrow(run, ks, out) ==
    IF ks = <<>> THEN <<>>
    ELSE IF OutcomeOf(run, Head(ks), out) = "throws" THEN <<Head(ks)>>
    ELSE <<Head(ks)>> \o UpToThrow(run, Tail(ks), out)

\* the catch block of the page loop: console.error; alert unless cancelled;
\* finally setLoading(false).  Nothing is published.
Thrown(run, c) ==
    [run EXCEPT !.pc = "done", !.cells = <<>>, !.log = <<>>, !.published = FALSE,
                !.alerted = ~c]

\* variant 1, after Promise.all of the chunk: if (isCancelled()) return;
\* else the sequential draw of the chunk, then await delay(0).  A draw call
\* that throws leaves drawAsync for the catch block of the page loop.
DrawChunk(run, c, out) ==
    IF c THEN EndRun(run, c)
    ELSE LET ks == UpToThrow(run, ChunkIndices(run), out)
             ctx == CtxCalls(run.ctx, Concat([j \in 1..Len(ks) |->
                        CellCtxOps(1, run.settings, OutcomeOf(run, ks[j], out))]))
         IN  IF \E j \in 1..Len(ks) : OutcomeOf(run, ks[j], out) = "throws"
             THEN Thrown([run EXCEPT !.ctx = ctx], c)
             ELSE [run EXCEPT !.pc = "delay0",
                     !.ctx = ctx,
                     !.log = @ \o DrawCalls(1, run, ChunkIndices(run), out),
                     !.cells = [k \in 1..Len(run.cells) |->
                                   IF run.cells[k].st = "decoded"
                                   THEN DrawCell(1, run, k - 1, out[run.slices[Len(run.slices)][k]])
                                   ELSE run.cells[k]]]

\* variant 2, `for (const task of tasks)`: if (isCancelled()) break; start
\* the task; await Promise.race once CONCURRENCY_LIMIT are executing; after
\* the loop await Promise.all(executing).  run.i is the next task.
RECURSIVE StartTasks(_, _)
StartTasks(run, c) ==
    IF run.i >= Len(run.cells) \/ c
    THEN IF Decoding(run) = {} THEN AfterDraw(run, c) ELSE [run EXCEPT !.pc = "drain"]
    ELSE LET started == [run EXCEPT !.cells[run.i + 1].st = "decoding", !.i = @ + 1]
         IN  IF Cardinality(Decoding(started)) >= CONCURRENCY_LIMIT
             THEN [started EXCEPT !.pc = "race"]
             ELSE StartTasks(started, c)

\* variant 2, a task resumes after await img.decode(): it draws its cell;
\* then the suspended loop or Promise.all continues
TaskResume(run, k, c, out) ==
    LET drawn == [run EXCEPT !.cells[k] =
                      DrawCell(2, run, k - 1, out[run.slices[Len(run.slices)][k]]),
                                !.log = @ \o DrawCalls(2, run, <<k>>, out),
                                !.ctx = CtxCalls(@, CellCtxOps(2, run.settings,
                                                     OutcomeOf(run, k, out)))]
    IN  IF run.pc = "race" THEN StartTasks(drawn, c)
        ELSE IF Decoding(drawn) = {} THEN AfterDraw(drawn, c)
        ELSE drawn

\* the toBlob callback: if (blob) newBlobs.push(blob); clean up; b++
Encoded(run, blob, c) ==
    NextBatch([run EXCEPT !.newBlobs = IF blob THEN Append(@, run.pages[Len(run.pages)])
                                        ELSE @,
                          !.nullBlobs = IF blob THEN @ ELSE @ + 1,
                          !.cells = <<>>,
                          !.log = <<>>,
                          !.b = @ + 1], c)

\* the local variables after the 50 ms timer
Prepared(v, run) ==
    LET mask == parseMaskIndices(run.settings.maskIndices)
        targets == Targets(run.opType, run.images, mask, run.settings.startNumber)
        rows == EffectiveGroupRows(v, run.settings, Len(targets))
        batchSize == run.settings.cols * rows
    IN  [run EXCEPT !.targets = targets, !.maskIndices = mask,
                    !.batchSize = batchSize,
                    !.totalBatches = TotalBatches(Len(targets), batchSize),
                    !.b = 0]

(***************************************************************************)
(* Actions: one per event-loop task.                                       *)
(***************************************************************************)
\* what a step that takes run r to nr does to the component state
Commit(r, nr, blobs) ==
    /\ runs' = [runs EXCEPT ![r] = nr]
    /\ generatedBlobs' = IF nr.pc = "done" /\ nr.published THEN nr.newBlobs ELSE blobs
    /\ loading' = IF nr.pc = "done" THEN FALSE ELSE loading

\* click on a generate button: the synchronous part up to the 50 ms timer
StartGeneration(r, opType) ==
    /\ runs[r].pc = "none"
    /\ \A q \in DOMAIN runs : q < r => runs[q].pc # "none"
    /\ Len(images) > 0
    /\ isCancelledRef' = FALSE
    /\ loading' = TRUE
    /\ generatedBlobs' = IF variant = 2 THEN <<>> ELSE generatedBlobs
    /\ runs' = [runs EXCEPT ![r] = [NoRun EXCEPT !.pc = "wait50", !.opType = opType,
                                                 !.images = images,
                                                 !.settings = settings,
                                                 !.sticker = sticker]]
    /\ UNCHANGED <<variant, images, files, settings, sticker, imp, parseVars, combVars, storeVars>>

\* the 50 ms timer fires: targets, batch size, first loop test
Resume50(r) ==
    /\ runs[r].pc = "wait50"
    /\ Commit(r, NextBatch(Prepared(variant, runs[r]), isCancelledRef),
              IF variant = 1 THEN <<>> ELSE generatedBlobs)
    /\ UNCHANGED <<variant, images, files, settings, sticker, isCancelledRef, imp,
                   parseVars, combVars, storeVars>>

\* the per-page timer fires: slice the batch and enter drawAsync
PageYieldDone(r) ==
    /\ runs[r].pc = "yield"
    /\ LET run == runs[r]
           slice == BatchSlice(run.targets, run.b, run.batchSize)
           entered == [run EXCEPT !.slices = Append(@, slice),
                                  !.cells = [k \in 1..Len(slice) |-> IdleCell],
                                  !.i = 0,
                                  !.ctx = NoCtx]
       IN  Commit(r, IF variant = 1 THEN StartChunk(entered, isCancelledRef)
                     ELSE IF run.settings.maskMode = "image" /\ run.sticker # "none"
                          THEN [entered EXCEPT !.pc = "sticker"]
                          ELSE StartTasks(entered, isCancelledRef),
                  generatedBlobs)
    /\ UNCHANGED <<variant, images, files, settings, sticker, isCancelledRef, imp,
                   parseVars, combVars, storeVars>>

\* variant 2: await stickerImgEl.decode() settles (either way)
StickerLoaded(r) ==
    /\ runs[r].pc = "sticker"
    /\ Commit(r, StartTasks(runs[r], isCancelledRef), generatedBlobs)
    /\ UNCHANGED <<variant, images, files, settings, sticker, isCancelledRef, imp,
                   parseVars, combVars, storeVars>>

\* one image decode settles
DecodeDone(r, k) ==
    /\ runs[r].pc \in {"decode", "race", "drain"}
    /\ k \in Decoding(runs[r])
    /\ LET run == runs[r]
           decoded == [run EXCEPT !.cells[k].st = "decoded"]
       IN  Commit(r, IF variant = 1
                     THEN IF Decoding(decoded) = {}
                          THEN DrawChunk(decoded, isCancelledRef, files)
                          ELSE decoded
                     ELSE TaskResume(run, k, isCancelledRef, files),
                  generatedBlobs)
    /\ UNCHANGED <<variant, images, files, settings, sticker, isCancelledRef, imp,
                   parseVars, combVars, storeVars>>

\* variant 1: await delay(0) is over; i += CONCURRENCY
DelayDone(r) ==
    /\ runs[r].pc = "delay0"
    /\ Commit(r, StartChunk([runs[r] EXCEPT !.i = @ + CONCURRENCY], isCancelledRef),
              generatedBlobs)
    /\ UNCHANGED <<variant, images, files, settings, sticker, isCancelledRef, imp,
                   parseVars, combVars, storeVars>>

\* canvas.toBlob calls back with a blob, or with null
EncodeDone(r, blob) ==
    /\ runs[r].pc = "toBlob"
    /\ Commit(r, Encoded(runs[r], blob, isCancelledRef), generatedBlobs)
    /\ UNCHANGED <<variant, images, files, settings, sticker, isCancelledRef, imp,
                   parseVars, combVars, storeVars>>

\* the cancel button of the busy indicator (shown while loading)
Cancel ==
    /\ loading
    /\ isCancelledRef' = TRUE
    /\ loading' = FALSE
    /\ runs' = [r \in DOMAIN runs |->
                  IF runs[r].pc \notin {"none", "done"} /\ runs[r].atCancel = -1
                  THEN [runs[r] EXCEPT !.atCancel = Len(runs[r].newBlobs)]
                  ELSE runs[r]]
    /\ UNCHANGED <<variant, images, files, settings, sticker, generatedBlobs, imp,
                   parseVars, combVars, storeVars>>

(***************************************************************************)
(* The stored session: IndexedDB store "images" and the order key of       *)
(* localStorage.  A file is known by its name + size, the key               *)
(* removeDuplicates compares; the file an import picks is told by the id    *)
(* the import gives it, ids being arbitrary.                                *)
(***************************************************************************)
FileNames ==
    { [name |-> <<"a">>, size |-> 12],
      [name |-> <<"b">>, size |-> 2],
      [name |-> <<"a", "1">>, size |-> 2] }

NameOf(id) ==
    IF id % 2 = 1 THEN [name |-> <<"a">>, size |-> 12] ELSE [name |-> <<"b">>, size |-> 2]

\* no file: the handler was not about one
NoFile == [name |-> <<>>, size |-> 0]

NoFiles == [id \in {} |-> NoFile]

RECURSIVE NumberToString(_)
\* String(n) of a non-negative integer: its decimal digits
NumberToString(n) ==
    LET digit == <<"0", "1", "2", "3", "4", "5", "6", "7", "8", "9">>[(n % 10) + 1]
    IN  IF n < 10 THEN <<digit>> ELSE NumberToString(n \div 10) \o <<digit>>

\* const key = item.name + item.size
DedupKey(file) == file.name \o NumberToString(file.size)

Put(f, id, x) == [k \in DOMAIN f \cup {id} |-> IF k = id THEN x ELSE f[k]]

Drop(f, ids) == [k \in DOMAIN f \ ids |-> f[k]]

\* list.splice(idx, 1), positions from 1
RemoveAt(list, idx) == FilterSeq(list, (0..(Len(list) - 1)) \ {idx - 1}, 0)

\* next[idx] = x on a copy of the list (positions from 1): an index one past
\* the end appends
SetAt(list, idx, x) ==
    IF idx <= Len(list) THEN [list EXCEPT ![idx] = x] ELSE Append(list, x)

(***************************************************************************)
(* Object URLs.  The URL of a gallery item is told by the item's id and a   *)
(* version, the versions of one id being the URLs URL.createObjectURL made  *)
(* for it.  urlState follows the URLs that an item shows or that a pending  *)
(* handler holds, and those that lost their last reference in the last      *)
(* handler; versions are names, and every handler ends by renaming the URLs *)
(* of each id to the least versions.                                        *)
(***************************************************************************)
MaxUrlVersions == 2  \* versions 0..MaxUrlVersions of the URLs of one id

UrlVersions == 0..MaxUrlVersions

NoUrls == [id \in DOMAIN files |-> [v \in UrlVersions |-> "none"]]

\* the URLs the items of a gallery show
ShownUrls(imgs, vs) == {<<imgs[k], vs[k]>> : k \in 1..Len(imgs)}

\* the URLs a pending handler holds in its closure
HeldUrls(s) ==
    s.held \cup (IF s.pc = "replace" THEN {<<s.id, s.url>>, <<s.id, s.old>>} ELSE {})

\* the URLs a handler finds: those something refers to
Tracked ==
    [id \in DOMAIN urlState |-> [v \in UrlVersions |->
        IF <<id, v>> \in ShownUrls(images, urlOf) \cup HeldUrls(sess)
        THEN urlState[id][v] ELSE "none"]]

\* URL.createObjectURL(file) for an item of this id: a URL not in use
FreeVersions(id) ==
    {v \in UrlVersions : <<id, v>> \notin ShownUrls(images, urlOf) \cup HeldUrls(sess)}

CreateObjectURL(id) == CHOOSE v \in FreeVersions(id) : \A w \in FreeVersions(id) : v <= w

Created(st, id, v) == [st EXCEPT ![id][v] = "live"]

\* URL.revokeObjectURL(url) for each URL of a set
Revoked(st, urls) ==
    [id \in DOMAIN st |-> [v \in UrlVersions |->
        IF <<id, v>> \notin urls THEN st[id][v]
        ELSE CASE st[id][v] = "live" -> "revoked"
               [] st[id][v] = "revoked" -> "twice"
               [] OTHER -> st[id][v]]]

\* the order the URLs of one id are renamed in: shown, held, left behind
UrlClass(refs, held, st, id, v) ==
    CASE <<id, v>> \in refs -> 0
      [] <<id, v>> \in held -> 1
      [] st[id][v] = "live" -> 2
      [] st[id][v] = "twice" -> 3
      [] st[id][v] = "revoked" -> 4
      [] OTHER -> 5

\* the version each URL is renamed to
UrlRank(imgs, vs, st, s) ==
    [id \in DOMAIN st |-> [v \in UrlVersions |->
        Cardinality({w \in UrlVersions :
            LET cw == UrlClass(ShownUrls(imgs, vs), HeldUrls(s), st, id, w)
                cv == UrlClass(ShownUrls(imgs, vs), HeldUrls(s), st, id, v)
            IN  cw < cv \/ (cw = cv /\ w < v)})]]

\* a handler that made or revoked URLs ends: images' is set beside it, and
\* the gallery's URLs, their states and the session are renamed
SetUrls(vs, st, s) ==
    \E vs0 \in {vs} : \E st0 \in {st} : \E s0 \in {s} :
    \E rank \in {UrlRank(images', vs0, st0, s0)} :
        /\ urlOf' = [k \in 1..Len(vs0) |-> rank[images'[k]][vs0[k]]]
        /\ urlState' = [id \in DOMAIN st0 |-> [r \in UrlVersions |->
                            st0[id][CHOOSE v \in UrlVersions : rank[id][v] = r]]]
        /\ sess' = [s0 EXCEPT !.url = IF s0.pc = "replace" THEN rank[s0.id][s0.url] ELSE 0,
                              !.old = IF s0.pc = "replace" THEN rank[s0.id][s0.old] ELSE 0,
                              !.held = {<<t[1], rank[t[1]][t[2]]>> : t \in s0.held}]

\* localStorage.getItem(key) === null
NoOrder == [has |-> FALSE, ids |-> <<>>]

\* localStorage.setItem(key, JSON.stringify(ids))
SavedOrder(imgs) == [has |-> TRUE, ids |-> imgs]

\* the effect on [images]: v1 writes or removes the key, v2 writes once loaded
SaveOrderEffect(v, loaded, imgs, old) ==
    IF v = 1
    THEN (IF Len(imgs) > 0 THEN SavedOrder(imgs) ELSE NoOrder)
    ELSE (IF loaded THEN SavedOrder(imgs) ELSE old)

\* what a request to the store does at present: it succeeds or it fails
DbModes == {"ok", "failing"}

\* store.put / store.delete / store.clear, which change the store only on success
DbPut(id, x) == IF dbMode = "ok" THEN Put(db, id, x) ELSE db

DbDelete(ids) == IF dbMode = "ok" THEN Drop(db, ids) ELSE db

DbClear == IF dbMode = "ok" THEN NoFiles ELSE db

\* the last gallery handler that ran to its end (or to its throw): what it
\* was, whether its persistence operation failed, the size of the gallery it
\* found, and the item and file it was about
NoOp == [op |-> "none", failed |-> FALSE, n |-> 0, id |-> 0, file |-> NoFile]

Did(op, before, id, file) ==
    [op |-> op, failed |-> dbMode # "ok", n |-> Len(before), id |-> id, file |-> file]

IdleSess == [pc |-> "idle", idx |-> 0, id |-> 0, file |-> NoFile, url |-> 0, old |-> 0,
             held |-> {}, meta |-> NoOrder, persisted |-> NoOrder, loaded |-> {},
             last |-> NoOp]

\* generateId() / Math.random(): an id no stored or shown image has
FreshIds ==
    DOMAIN files \ (Range(images) \cup DOMAIN db \cup Range(orderKey.ids)
                       \cup (IF sess.pc = "replace" THEN {sess.id} ELSE {}))

\* the gallery after setImages(prev => [...prev, ...newImages])
Imported(id) ==
    /\ images' = Append(images, id)
    /\ names' = Append(names, NameOf(id))
    /\ SetUrls(Append(urlOf, CreateObjectURL(id)), Created(Tracked, id, CreateObjectURL(id)),
               [sess EXCEPT !.persisted = IF sess.pc = "restore" THEN @ ELSE NoOrder,
                            !.loaded = {}, !.last = Did("import", images, id, NameOf(id))])

\* a file is picked: handleFileSelect (v1) / handleFiles (v2), synchronous part
ImportFiles ==
    /\ imp = "idle"
    /\ \E id \in FreshIds : FreeVersions(id) # {}
    /\ loading' = TRUE
    /\ IF variant = 1
       THEN /\ imp' = "wait50"
            /\ UNCHANGED <<images, isCancelledRef, storeVars>>
       ELSE /\ isCancelledRef' = FALSE
            /\ \E id \in FreshIds :
                  /\ FreeVersions(id) # {}
                  /\ Imported(id)
                  /\ db' = DbPut(id, NameOf(id))
            /\ orderKey' = SaveOrderEffect(variant, isLoaded, images', orderKey)
            /\ imp' = "timer"
            /\ UNCHANGED <<isLoaded, dbMode>>
    /\ UNCHANGED <<variant, files, settings, sticker, generatedBlobs, runs, parseVars, combVars>>

\* the continuation of the import
ImportStep ==
    /\ imp # "idle"
    /\ CASE imp = "wait50" ->
              /\ imp' = "save"
              /\ UNCHANGED <<images, loading, storeVars>>
         [] imp = "save" ->
              /\ \E id \in FreshIds :
                    /\ FreeVersions(id) # {}
                    /\ Imported(id)
                    /\ db' = DbPut(id, NameOf(id))
              /\ orderKey' = SaveOrderEffect(variant, isLoaded, images', orderKey)
              /\ loading' = FALSE
              /\ imp' = "idle"
              /\ UNCHANGED <<isLoaded, dbMode>>
         [] OTHER ->
              /\ loading' = FALSE
              /\ imp' = "idle"
              /\ UNCHANGED <<images, storeVars>>
    /\ UNCHANGED <<variant, files, settings, sticker, isCancelledRef, generatedBlobs,
                   runs, parseVars, combVars>>

\* a call of parseMaskIndices
ParseCall ==
    /\ parsePc = "call"
    /\ indices' = parseMaskIndices(input)
    /\ parsePc' = "done"
    /\ UNCHANGED <<input, genVars, combVars, storeVars>>

(***************************************************************************)
(* Vertical combine: handleDownload('combine') (variant 1) and             *)
(* combineAndDownload (variant 2).  The arithmetic is exact: with          *)
(* s = min(scaleH, scaleP), floor(maxW * s) and floor(totalH * s) are      *)
(* computed over the integers.                                             *)
(*   pc: "idle" | "measure" the pages are being decoded | "draw"           *)
(*   (variant 1) page i is being decoded and drawn | "toBlob" | "done"     *)
(*   outcome: "download" | "alert" (the failure alert) | "silent" (variant *)
(*   2 drops a null blob without a word)                                   *)
(***************************************************************************)
MAX_SAFE_TOTAL_HEIGHT == 28000

PIXEL_LIMIT == 80 * 1000 * 1000

IKKO_PIXEL_LIMIT == 50000000

RECURSIVE GCD(_, _)
GCD(a, b) == IF b = 0 THEN a ELSE GCD(b, a % b)

\* the largest d in lo..hi with d * d <= n (lo * lo <= n)
RECURSIVE SqrtSearch(_, _, _)
SqrtSearch(n, lo, hi) ==
    IF lo >= hi THEN lo
    ELSE LET mid == (lo + hi + 1) \div 2
         IN  IF mid * mid <= n THEN SqrtSearch(n, mid, hi) ELSE SqrtSearch(n, lo, mid - 1)

\* Math.floor(Math.sqrt(x)) for an integer part n of x
FloorSqrt(n) == SqrtSearch(n, 0, 46340)

\* floor(a * f1 * f2 * ... / c) by long division, one factor at a time
RECURSIVE FloorMulDiv(_, _, _, _)
FloorMulDiv(q, r, c, factors) ==
    IF factors = <<>> THEN q
    ELSE FloorMulDiv(q * Head(factors) + (r * Head(factors)) \div c,
                     (r * Head(factors)) % c, c, Tail(factors))

\* floor(a * PIXEL_LIMIT / c)
TimesPixelLimitOver(a, c) == FloorMulDiv(a \div c, a % c, c, <<80, 1000, 1000>>)

RECURSIVE SumHeights(_)
SumHeights(blobs) ==
    IF blobs = <<>> THEN 0 ELSE Head(blobs).surface.h + SumHeights(Tail(blobs))

\* variant 1: finalW, finalH and which ratio gave scale = min(scaleH, scaleP);
\* scaleH <= scaleP iff MAX_SAFE_TOTAL_HEIGHT^2 * maxW <= PIXEL_LIMIT * totalH
CombinedSize(maxW, totalH) ==
    IF totalH > MAX_SAFE_TOTAL_HEIGHT \/ maxW * totalH > PIXEL_LIMIT
    THEN LET g == GCD(MAX_SAFE_TOTAL_HEIGHT * MAX_SAFE_TOTAL_HEIGHT, PIXEL_LIMIT)
             byHeight == ((MAX_SAFE_TOTAL_HEIGHT * MAX_SAFE_TOTAL_HEIGHT) \div g) * maxW
                             <= (PIXEL_LIMIT \div g) * totalH
         IN  IF byHeight
             THEN [scale |-> "height", w |-> (maxW * MAX_SAFE_TOTAL_HEIGHT) \div totalH,
                   h |-> MAX_SAFE_TOTAL_HEIGHT]
             ELSE [scale |-> "pixels", w |-> FloorSqrt(TimesPixelLimitOver(maxW, totalH)),
                   h |-> FloorSqrt(TimesPixelLimitOver(totalH, maxW))]
    ELSE [scale |-> "none", w |-> maxW, h |-> totalH]

NoCombine == [pc |-> "idle", blobs |-> <<>>, maxW |-> 0, totalH |-> 0, scale |-> "none",
              w |-> 0, h |-> 0, i |-> 0, outcome |-> "none"]

\* click on the combine button: the synchronous part
CombineStart ==
    /\ comb.pc = "idle"
    /\ generatedBlobs # <<>>
    /\ variant = 2 => Len(images) <= 100
    /\ comb' = [NoCombine EXCEPT !.pc = "measure", !.blobs = generatedBlobs]
    /\ loading' = TRUE
    /\ UNCHANGED <<variant, images, files, settings, sticker, isCancelledRef,
                   generatedBlobs, runs, imp, dl, preview, parseVars, storeVars>>

\* the pages are decoded (createImageBitmap) to learn their sizes; a page
\* that does not decode, or variant 2's pixel check, ends in the catch block
CombineMeasured(ok) ==
    /\ comb.pc = "measure"
    /\ LET maxW == comb.blobs[1].surface.w
           totalH == SumHeights(comb.blobs)
           size == CombinedSize(maxW, totalH)
       IN  IF ~ok \/ (variant = 2 /\ maxW * totalH > IKKO_PIXEL_LIMIT)
           THEN /\ comb' = [comb EXCEPT !.pc = "done", !.outcome = "alert",
                                        !.maxW = IF ok THEN maxW ELSE 0,
                                        !.totalH = IF ok THEN totalH ELSE 0]
                /\ loading' = FALSE
           ELSE /\ comb' = IF variant = 1
                           THEN [comb EXCEPT !.pc = "draw", !.maxW = maxW, !.totalH = totalH,
                                             !.scale = size.scale, !.w = size.w,
                                             !.h = size.h]
                           ELSE [comb EXCEPT !.pc = "toBlob", !.maxW = maxW,
                                             !.totalH = totalH, !.w = maxW, !.h = totalH,
                                             !.i = Len(comb.blobs)]
                /\ UNCHANGED loading
    /\ UNCHANGED <<variant, images, files, settings, sticker, isCancelledRef,
                   generatedBlobs, runs, imp, dl, preview, parseVars, storeVars>>

\* variant 1: page i is decoded again and drawn scaled, then a 0 ms timer
CombineDrawn(ok) ==
    /\ comb.pc = "draw"
    /\ IF ok
       THEN /\ comb' = [comb EXCEPT !.i = @ + 1,
                                    !.pc = IF comb.i + 1 = Len(comb.blobs) THEN "toBlob"
                                           ELSE "draw"]
            /\ UNCHANGED loading
       ELSE /\ comb' = [comb EXCEPT !.pc = "done", !.outcome = "alert"]
            /\ loading' = FALSE
    /\ UNCHANGED <<variant, images, files, settings, sticker, isCancelledRef,
                   generatedBlobs, runs, imp, dl, preview, parseVars, storeVars>>

\* cvs.toBlob calls back: download, or (variant 1) the out-of-memory alert
CombineEncoded(blob) ==
    /\ comb.pc = "toBlob"
    /\ comb' = [comb EXCEPT !.pc = "done",
                            !.outcome = IF blob THEN "download"
                                        ELSE IF variant = 1 THEN "alert" ELSE "silent"]
    /\ loading' = FALSE
    /\ UNCHANGED <<variant, images, files, settings, sticker, isCancelledRef,
                   generatedBlobs, runs, imp, dl, preview, parseVars, storeVars>>

(***************************************************************************)
(* The export quality controls and the downloads of the pages as files.    *)
(***************************************************************************)
NoDownload == [pc |-> "idle", kind |-> "none", files |-> {}]

\* the quality number input and (v1) the preset select
SetQuality(q, p) ==
    /\ ~loading
    /\ settings' = [settings EXCEPT !.quality = q, !.qualityPreset = p]
    /\ settings' # settings
    /\ UNCHANGED <<variant, images, files, sticker, isCancelledRef, loading, generatedBlobs,
                   runs, imp, parseVars, combVars, storeVars>>

\* the extension the ZIP entries (both variants) and v2's page files get
SettingsExt(v, st) ==
    IF v = 1 THEN (IF st.qualityPreset = "1.0" THEN "png" ELSE "jpg")
    ELSE (IF st.quality = 100 THEN "png" ELSE "jpg")

\* generatedBlobs[i].type.includes('png') ? 'png' : 'jpg'
BlobExt(blob) == IF blob.mimeType = "image/png" THEN "png" ELSE "jpg"

\* handleDownload('zip') / downloadZip up to `await zip.generateAsync`
DownloadZip ==
    /\ dl.pc = "idle"
    /\ ~loading
    /\ generatedBlobs # <<>>
    /\ loading' = TRUE
    /\ dl' = [pc |-> "zip", kind |-> "zip",
              files |-> {[ext |-> SettingsExt(variant, settings),
                          mimeType |-> generatedBlobs[i].mimeType] :
                            i \in 1..Len(generatedBlobs)}]
    /\ UNCHANGED <<variant, images, files, settings, sticker, isCancelledRef,
                   generatedBlobs, runs, imp, comb, preview, parseVars, storeVars>>

\* zip.generateAsync settles: the archive is downloaded, or the alert shown
ZipSettled ==
    /\ dl.pc = "zip"
    /\ loading' = FALSE
    /\ dl' = [dl EXCEPT !.pc = "idle"]
    /\ UNCHANGED <<variant, images, files, settings, sticker, isCancelledRef,
                   generatedBlobs, runs, imp, comb, preview, parseVars, storeVars>>

\* handleDownload('parts') / downloadParts: the page files, one per timer
DownloadParts ==
    /\ dl.pc = "idle"
    /\ ~loading
    /\ generatedBlobs # <<>>
    /\ loading' = (variant = 2)
    /\ dl' = [pc |-> "parts", kind |-> "parts",
              files |-> {[ext |-> IF variant = 1 THEN BlobExt(generatedBlobs[i])
                                  ELSE SettingsExt(variant, settings),
                          mimeType |-> generatedBlobs[i].mimeType] :
                            i \in 1..Len(generatedBlobs)}]
    /\ UNCHANGED <<variant, images, files, settings, sticker, isCancelledRef,
                   generatedBlobs, runs, imp, comb, preview, parseVars, storeVars>>

\* the last timer of the page files fires
PartsDone ==
    /\ dl.pc = "parts"
    /\ loading' = IF variant = 2 THEN FALSE ELSE loading
    /\ dl' = [dl EXCEPT !.pc = "idle"]
    /\ UNCHANGED <<variant, images, files, settings, sticker, isCancelledRef,
                   generatedBlobs, runs, imp, comb, preview, parseVars, storeVars>>

(***************************************************************************)
(* Variant 2's previews.  pc: "idle" | "overlay" drawAsync of the 3 x 3    *)
(* preview | "load" previewQuality waits for img.onload; id: the image     *)
(* previewQuality loads (images[0] at the click); shown: the last call     *)
(* opened the preview modal.                                               *)
(***************************************************************************)
NoPreview == [pc |-> "idle", id |-> 0, shown |-> FALSE]

\* previewOverlay up to `await drawAsync(...)` (an overlay image is set)
PreviewOverlay ==
    /\ variant = 2
    /\ preview.pc = "idle"
    /\ ~loading
    /\ Len(images) > 0
    /\ loading' = TRUE
    /\ preview' = [NoPreview EXCEPT !.pc = "overlay"]
    /\ UNCHANGED <<variant, images, files, settings, sticker, isCancelledRef,
                   generatedBlobs, runs, imp, comb, dl, parseVars, storeVars>>

\* drawAsync returned (isCancelled: () => false; every decode settles and a
\* failed one draws the placeholder): toDataURL, the modal, or the alert of
\* the catch block; finally setIsGenerating(false)
PreviewOverlayDone(ok) ==
    /\ preview.pc = "overlay"
    /\ loading' = FALSE
    /\ preview' = [NoPreview EXCEPT !.shown = ok]
    /\ UNCHANGED <<variant, images, files, settings, sticker, isCancelledRef,
                   generatedBlobs, runs, imp, comb, dl, parseVars, storeVars>>

\* previewQuality up to `await new Promise(r => img.onload = r)`
PreviewQuality ==
    /\ variant = 2
    /\ preview.pc = "idle"
    /\ ~loading
    /\ Len(images) > 0
    /\ loading' = TRUE
    /\ preview' = [NoPreview EXCEPT !.pc = "load", !.id = images[1]]
    /\ UNCHANGED <<variant, images, files, settings, sticker, isCancelledRef,
                   generatedBlobs, runs, imp, comb, dl, parseVars, storeVars>>

\* img.onload fires: the only event the promise listens to, and an image
\* that does not load fires onerror instead.  Then drawImage, toDataURL,
\* the modal; finally setIsGenerating(false)
PreviewLoaded ==
    /\ preview.pc = "load"
    /\ files[preview.id] # "fail"
    /\ loading' = FALSE
    /\ preview' = [NoPreview EXCEPT !.shown = files[preview.id] = "ok"]
    /\ UNCHANGED <<variant, images, files, settings, sticker, isCancelledRef,
                   generatedBlobs, runs, imp, comb, dl, parseVars, storeVars>>

(***************************************************************************)
(* Specifications.                                                         *)
(*   Spec       one call of startGeneration / generate with the cancel     *)
(*              button, over the layout settings; every image decodes      *)
(*   SpecDecode the same call over every decode result of every image      *)
(*   SpecRace   two calls, the cancel button and file imports interleaved  *)
(*   SpecParse  parseMaskIndices over texts                                *)
(***************************************************************************)
MaxRuns == 2         \* calls of startGeneration / generate in SpecRace

Gallery(n) == [k \in 1..n |-> k]

SettingsSpace ==
    [cols : 1..MaxCols, groupRows : 0..MaxRows, gap : {0}, aspectW : {3}, aspectH : {4},
     showNum : BOOLEAN, startNumber : 1..MaxStart, maskIndices : MaskTexts,
     maskMode : {"line", "image"}, quality : {80}, qualityPreset : {"0.80"}]

\* one page per run (variant 1 fits 7 rows, variant 2 takes all rows)
OnePageSettings ==
    [cols : {1, 2}, groupRows : {0}, gap : {0}, aspectW : {3}, aspectH : {4},
     showNum : {TRUE}, startNumber : {1}, maskIndices : {<<"2">>},
     maskMode : {"line", "image"}, quality : {80}, qualityPreset : {"0.80"}]

RaceSettings ==
    [cols : {1}, groupRows : {0, 2}, gap : {0}, aspectW : {3}, aspectH : {4},
     showNum : {TRUE}, startNumber : {1}, maskIndices : {<<"2">>},
     maskMode : {"line", "image"}, quality : {80}, qualityPreset : {"0.80"}]

\* variant 1 holds a loaded sticker or none (stickerImg is set in onload);
\* variant 2 holds a URL whose decode may fail; line mode reads no sticker
StickerSpace(v, mode) ==
    IF mode = "line" THEN {"none"}
    ELSE IF v = 1 THEN {"none", "ok"} ELSE {"none", "ok", "broken"}

InitGen(outcomes, settingsSpace, galleries, nRuns) ==
    /\ variant \in Variants
    /\ \E n \in galleries :
          /\ images = Gallery(n)
          /\ files \in [1..MaxImages -> outcomes]
          /\ \A id \in 1..MaxImages : id > n => files[id] = "ok"
    /\ settings \in settingsSpace
    /\ sticker \in StickerSpace(variant, settings.maskMode)
    /\ isCancelledRef = FALSE
    /\ loading = FALSE
    /\ generatedBlobs = <<>>
    /\ runs = [r \in 1..nRuns |-> NoRun]
    /\ imp = "idle"

ParseIdle == input = <<>> /\ indices = <<>> /\ parsePc = "idle"

CombineIdle == comb = NoCombine /\ dl = NoDownload /\ preview = NoPreview

\* the stored session of a gallery: every item stored, the order saved
StoreSettled ==
    /\ names = [k \in 1..Len(images) |-> NameOf(images[k])]
    /\ urlOf = [k \in 1..Len(images) |-> 0]
    /\ urlState = [id \in DOMAIN files |-> [v \in UrlVersions |->
                      IF id \in Range(images) /\ v = 0 THEN "live" ELSE "none"]]
    /\ db = [id \in Range(images) |-> NameOf(id)]
    /\ orderKey = SaveOrderEffect(variant, TRUE, images, NoOrder)
    /\ isLoaded = TRUE
    /\ sess = IdleSess
    /\ dbMode = "ok"

OthersIdle == ParseIdle /\ CombineIdle /\ StoreSettled

Init == InitGen({"ok"}, SettingsSpace, 1..MaxImages, Len(<<NoRun>>)) /\ OthersIdle

\* the steps of the runs; the decodes in flight settle in any order, or
\* (order = "started") in the order they were started
NextRunOrdered(order) ==
    \/ \E r \in DOMAIN runs, opType \in OpTypes : StartGeneration(r, opType)
    \/ \E r \in DOMAIN runs : Resume50(r)
    \/ \E r \in DOMAIN runs : PageYieldDone(r)
    \/ \E r \in DOMAIN runs : StickerLoaded(r)
    \/ \E r \in DOMAIN runs : \E k \in Decoding(runs[r]) :
          /\ order = "started" => \A j \in Decoding(runs[r]) : k <= j
          /\ DecodeDone(r, k)
    \/ \E r \in DOMAIN runs : DelayDone(r)
    \/ \E r \in DOMAIN runs, blob \in BOOLEAN : EncodeDone(r, blob)
    \/ Cancel

NextRun == NextRunOrdered("any")

Next == NextRun

Spec == Init /\ [][Next]_vars

InitDecode ==
    InitGen({"ok", "zero", "fail"}, OnePageSettings, 1..MaxImages, Len(<<NoRun>>))
        /\ OthersIdle

SpecDecode == InitDecode /\ [][Next]_vars

InitRace ==
    InitGen({"ok"}, RaceSettings, (MaxImages - 1)..MaxImages, MaxRuns) /\ OthersIdle

NextRace ==
    \/ NextRun
    \/ ImportFiles
    \/ ImportStep

SpecRace == InitRace /\ [][NextRace]_vars

(***************************************************************************)
(* SpecPlan: one call over galleries large enough for the automatic row    *)
(* count to make a second page, under the default settings of each variant *)
(* and two changes of them.                                                *)
(***************************************************************************)
MaxPlanImages == 22  \* most images of a gallery in SpecPlan

\* DEFAULT_SETTINGS of types.ts: variant 1 has ratio 0.75, variant 2 0.5625
DefaultSettings(v) ==
    [cols |-> 3, groupRows |-> 0, gap |-> 0,
     aspectW |-> IF v = 1 THEN 3 ELSE 9, aspectH |-> IF v = 1 THEN 4 ELSE 16,
     showNum |-> TRUE, startNumber |-> 1, maskIndices |-> <<>>, maskMode |-> "line",
     quality |-> 80, qualityPreset |-> "0.80"]

\* the defaults; a custom ratio 1000 : 2067; nine columns with a gap of 10
\* and cell 2 masked by the sticker
PlanSettings(v) ==
    { DefaultSettings(v),
      [DefaultSettings(v) EXCEPT !.aspectW = 1000, !.aspectH = 2067],
      [DefaultSettings(v) EXCEPT !.cols = 9, !.gap = 10, !.maskIndices = <<"2">>,
                                 !.maskMode = "image"] }

InitPlan ==
    /\ variant \in Variants
    /\ \E n \in 1..MaxPlanImages : images = Gallery(n)
    /\ files = [id \in 1..MaxPlanImages |-> "ok"]
    /\ settings \in PlanSettings(variant)
    /\ sticker \in StickerSpace(variant, settings.maskMode)
    /\ isCancelledRef = FALSE
    /\ loading = FALSE
    /\ generatedBlobs = <<>>
    /\ runs = <<NoRun>>
    /\ imp = "idle"
    /\ OthersIdle

\* the size of a page does not depend on the order the decodes settle in
NextPlan == NextRunOrdered("started")

SpecPlan == InitPlan /\ [][NextPlan]_vars

(***************************************************************************)
(* SpecCombine: one call, then the combined download of its pages.  One    *)
(* column makes narrow pages whose summed height passes the height         *)
(* ceiling, the custom ratio makes pages that pass the pixel ceiling.      *)
(***************************************************************************)
CombineSettings(v) ==
    { DefaultSettings(v),
      [DefaultSettings(v) EXCEPT !.cols = 1, !.maskIndices = <<"2">>,
                                 !.maskMode = "image"],
      [DefaultSettings(v) EXCEPT !.aspectW = 1000, !.aspectH = 2067] }

InitCombine ==
    /\ variant \in Variants
    /\ \E n \in 1..MaxPlanImages : images = Gallery(n)
    /\ files = [id \in 1..MaxPlanImages |-> "ok"]
    /\ settings \in CombineSettings(variant)
    /\ sticker \in StickerSpace(variant, settings.maskMode)
    /\ isCancelledRef = FALSE
    /\ loading = FALSE
    /\ generatedBlobs = <<>>
    /\ runs = <<NoRun>>
    /\ imp = "idle"
    /\ OthersIdle

NextCombine ==
    \/ NextRunOrdered("started")
    \/ CombineStart
    \/ \E ok \in BOOLEAN : CombineMeasured(ok)
    \/ \E ok \in BOOLEAN : CombineDrawn(ok)
    \/ \E blob \in BOOLEAN : CombineEncoded(blob)

SpecCombine == InitCombine /\ [][NextCombine]_vars

(***************************************************************************)
(* The gallery handlers and the reload of the page.  The model follows one *)
(* awaiting gallery handler at a time (sess.pc); an import may run beside  *)
(* it, and a drag or a deletion beside v1's replaceImage.                  *)
(***************************************************************************)
MaxStoreImages == 2  \* ids an import can draw from in SpecStore

RECURSIVE SortedIds(_)
\* store.getAll(): the records in ascending key order
SortedIds(ids) ==
    IF ids = {} THEN <<>>
    ELSE LET least == CHOOSE a \in ids : \A b \in ids : a <= b
         IN <<least>> \o SortedIds(ids \ {least})

\* list.splice(from, 1) then list.splice(to, 0, moved), positions from 1
Move(list, from, to) ==
    LET rest == FilterSeq(list, (0..(Len(list) - 1)) \ {from - 1}, 0)
    IN SubSeq(rest, 1, to - 1) \o <<list[from]>> \o SubSeq(rest, to, Len(rest))

\* positions (0-based) removeDuplicates keeps: the first item of each key
FirstOfKey(nm) ==
    {k \in 0..(Len(nm) - 1) : \A j \in 0..(k - 1) : DedupKey(nm[j + 1]) # DedupKey(nm[k + 1])}

\* the handlers that change generation state only in variant 2's clearAll
StoreFrame == UNCHANGED <<variant, files, settings, sticker, isCancelledRef, loading,
                          generatedBlobs, runs, imp, parseVars, combVars>>

\* the session after a handler that awaits nothing: v1's replaceImage may
\* still wait for its store request
After(last) ==
    IF sess.pc = "replace" THEN [sess EXCEPT !.last = last] ELSE [IdleSess EXCEPT !.last = last]

\* Sortable onEnd: an item is dragged from one position to another
Reorder(from, to) ==
    /\ sess.pc \in {"idle", "replace"}
    /\ from \in 1..Len(images) /\ to \in 1..Len(images) /\ from # to
    /\ images' = Move(images, from, to)
    /\ names' = Move(names, from, to)
    /\ urlOf' = Move(urlOf, from, to)
    /\ orderKey' = SaveOrderEffect(variant, isLoaded, images', orderKey)
    /\ sess' = After([Did("reorder", images, images[from], names[from]) EXCEPT !.failed = FALSE])
    /\ UNCHANGED <<urlState, db, isLoaded, dbMode>>
    /\ StoreFrame

\* deleteImage (v1) / handleDelete (v2): the store request is not awaited.
\* Beside a pending replaceImage the model stops short of the deletions
\* that would leave the replaced position beyond the end of the list
DeleteImage(idx) ==
    /\ sess.pc \in {"idle", "replace"}
    /\ sess.pc = "replace" => sess.idx <= Len(images)
    /\ idx \in 1..Len(images)
    /\ images' = RemoveAt(images, idx)
    /\ names' = RemoveAt(names, idx)
    /\ db' = DbDelete({images[idx]})
    /\ orderKey' = SaveOrderEffect(variant, isLoaded, images', orderKey)
    /\ SetUrls(RemoveAt(urlOf, idx), Revoked(Tracked, {<<images[idx], urlOf[idx]>>}),
               After(Did("delete", images, images[idx], names[idx])))
    /\ UNCHANGED <<isLoaded, dbMode>>
    /\ StoreFrame

\* removeDuplicates: the store requests are not awaited
RemoveDuplicates ==
    /\ sess.pc = "idle"
    /\ FirstOfKey(names) # 0..(Len(images) - 1)
    /\ LET removed == (0..(Len(images) - 1)) \ FirstOfKey(names)
           removeIds == {images[k + 1] : k \in removed}
       IN /\ images' = FilterSeq(images, FirstOfKey(names), 0)
          /\ names' = FilterSeq(names, FirstOfKey(names), 0)
          /\ db' = DbDelete(removeIds)
          /\ SetUrls(FilterSeq(urlOf, FirstOfKey(names), 0),
                     Revoked(Tracked, {<<images[k + 1], urlOf[k + 1]>> : k \in removed}),
                     After(Did("dedup", images, 0, NoFile)))
    /\ orderKey' = SaveOrderEffect(variant, isLoaded, images', orderKey)
    /\ UNCHANGED <<isLoaded, dbMode>>
    /\ StoreFrame

\* replaceImage (v1) up to its await / handleReplace (v2), which awaits nothing
ReplaceImage(idx, file) ==
    /\ sess.pc = "idle"
    /\ idx \in 1..Len(images)
    /\ FreeVersions(images[idx]) # {}
    /\ UNCHANGED <<images, orderKey, isLoaded, dbMode>>
    /\ LET newUrl == CreateObjectURL(images[idx])
       IN IF variant = 1
          THEN /\ SetUrls(urlOf, Created(Tracked, images[idx], newUrl),
                          [IdleSess EXCEPT !.pc = "replace", !.idx = idx, !.id = images[idx],
                                           !.file = file, !.url = newUrl, !.old = urlOf[idx]])
               /\ UNCHANGED <<names, db>>
          ELSE /\ db' = DbPut(images[idx], file)
               /\ names' = [names EXCEPT ![idx] = file]
               /\ SetUrls([urlOf EXCEPT ![idx] = newUrl],
                          Revoked(Created(Tracked, images[idx], newUrl),
                                  {<<images[idx], urlOf[idx]>>}),
                          After(Did("replace", images, images[idx], file)))
    /\ StoreFrame

\* v1 replaceImage after `await saveImageToDB(newItem)`: a rejection ends it
ReplaceSettled ==
    /\ sess.pc = "replace"
    /\ db' = DbPut(sess.id, sess.file)
    /\ IF dbMode = "ok"
       THEN /\ images' = SetAt(images, sess.idx, sess.id)
            /\ names' = SetAt(names, sess.idx, sess.file)
            /\ SetUrls(SetAt(urlOf, sess.idx, sess.url), Revoked(Tracked, {<<sess.id, sess.old>>}),
                       [IdleSess EXCEPT !.last = Did("replace", images, sess.id, sess.file)])
       ELSE /\ UNCHANGED <<images, names>>
            /\ SetUrls(urlOf, Tracked,
                       [IdleSess EXCEPT !.last = Did("replace", images, sess.id, sess.file)])
    /\ orderKey' = SaveOrderEffect(variant, isLoaded, images', orderKey)
    /\ UNCHANGED <<isLoaded, dbMode>>
    /\ StoreFrame

\* clearImages (v1) / clearAll (v2) up to the first await
ClearStart ==
    /\ sess.pc = "idle"
    /\ IF variant = 1
       THEN /\ sess' = [IdleSess EXCEPT !.pc = "clearDb", !.held = ShownUrls(images, urlOf)]
            /\ UNCHANGED <<isCancelledRef, loading>>
       ELSE /\ isCancelledRef' = TRUE
            /\ loading' = TRUE
            /\ sess' = [IdleSess EXCEPT !.pc = "clear50", !.held = ShownUrls(images, urlOf)]
    /\ UNCHANGED <<variant, images, files, settings, sticker, generatedBlobs, runs, imp,
                   names, urlOf, urlState, db, orderKey, isLoaded, dbMode, parseVars, combVars>>

\* v2 clearAll: the 50 ms timer fires and clearImagesDB() is called
ClearTimer ==
    /\ sess.pc = "clear50"
    /\ sess' = [sess EXCEPT !.pc = "clearDb"]
    /\ UNCHANGED <<genVars, parseVars, combVars, names, urlOf, urlState, db, orderKey,
                   isLoaded, dbMode>>

\* after `await clearImagesDB()`.  A failing store either does not open or
\* rejects the request: v1 throws on both, v2's clearImagesDB catches the
\* store that does not open and lets the rejected request through
ClearSettled(opens) ==
    /\ sess.pc = "clearDb"
    /\ dbMode = "ok" => opens
    /\ db' = DbClear
    /\ IF dbMode = "ok" \/ (variant = 2 /\ ~opens)
       THEN /\ images' = <<>>
            /\ names' = <<>>
            /\ SetUrls(<<>>, Revoked(Tracked, sess.held),
                       [IdleSess EXCEPT !.last = Did("clear", images, 0, NoFile)])
            /\ orderKey' = SaveOrderEffect(variant, isLoaded, <<>>, NoOrder)
            /\ IF variant = 2
               THEN generatedBlobs' = <<>> /\ loading' = FALSE
               ELSE UNCHANGED <<generatedBlobs, loading>>
       ELSE /\ UNCHANGED <<images, names, orderKey, generatedBlobs, loading>>
            /\ SetUrls(urlOf, Tracked, [IdleSess EXCEPT !.last = Did("clear", images, 0, NoFile)])
    /\ UNCHANGED <<variant, files, settings, sticker, isCancelledRef, runs, imp,
                   isLoaded, dbMode, parseVars, combVars>>

\* the page is reloaded and the component mounts: the mount effect starts
\* restoreSession (v1) / loadData (v2), which reads the saved metadata before
\* its first await; v1's order effect then runs with the empty gallery.  The
\* object URLs of the document that is left go with it
Reload ==
    /\ sess.pc = "idle"
    /\ imp = "idle"
    /\ images' = <<>>
    /\ names' = <<>>
    /\ urlOf' = <<>>
    /\ urlState' = NoUrls
    /\ isCancelledRef' = FALSE
    /\ loading' = (variant = 1)
    /\ generatedBlobs' = <<>>
    /\ sticker' = IF variant = 1 \/ sticker = "none" THEN "none" ELSE "broken"
    /\ isLoaded' = FALSE
    /\ orderKey' = SaveOrderEffect(variant, FALSE, <<>>, orderKey)
    /\ sess' = [IdleSess EXCEPT !.pc = "restore", !.meta = orderKey,
                                !.persisted = orderKey]
    /\ UNCHANGED <<variant, files, settings, runs, imp, db, dbMode, parseVars, combVars>>

\* the gallery the restoration sets: URL.createObjectURL for each stored blob
Restored(ids, s) ==
    /\ images' = ids
    /\ names' = [k \in 1..Len(ids) |-> db[ids[k]]]
    /\ SetUrls([k \in 1..Len(ids) |-> MaxUrlVersions],
               [id \in DOMAIN urlState |-> [v \in UrlVersions |->
                   IF v = MaxUrlVersions
                   THEN (IF id \in Range(ids) THEN "live" ELSE "none")
                   ELSE Tracked[id][v]]],
               s)

\* v1 restoreSession after `await loadImagesFromDB()`
RestoreSession(s) ==
    LET savedImages == IF dbMode = "ok" THEN SortedIds(DOMAIN db) ELSE <<>>
        InMap(id) == id \in DOMAIN db
        NotListed(id) == id \notin Range(orderKey.ids)
        orderedImages == SelectSeq(orderKey.ids, InMap) \o SelectSeq(savedImages, NotListed)
    IN /\ IF Len(savedImages) > 0
          THEN Restored(IF orderKey.has THEN orderedImages ELSE savedImages, s)
          ELSE UNCHANGED <<images, names>> /\ SetUrls(urlOf, Tracked, s)
       /\ loading' = FALSE
       /\ UNCHANGED isLoaded

\* v2 loadData after the blobs of the saved metadata were asked for
LoadData(s) ==
    LET Loaded(id) == dbMode = "ok" /\ id \in DOMAIN db
        sortedImages == SelectSeq(sess.meta.ids, Loaded)
    IN /\ IF sess.meta.has
          THEN Restored(sortedImages, s)
          ELSE UNCHANGED <<images, names>> /\ SetUrls(urlOf, Tracked, s)
       /\ isLoaded' = TRUE
       /\ UNCHANGED loading

\* the restoration ends
RestoreDone ==
    /\ sess.pc = "restore"
    /\ LET s == [sess EXCEPT !.pc = "idle",
                             !.loaded = IF dbMode = "ok" THEN DOMAIN db ELSE {},
                             !.last = Did("restore", images, 0, NoFile)]
       IN IF variant = 1 THEN RestoreSession(s) ELSE LoadData(s)
    /\ orderKey' = SaveOrderEffect(variant, isLoaded', images', orderKey)
    /\ UNCHANGED <<variant, files, settings, sticker, isCancelledRef, generatedBlobs,
                   runs, imp, db, dbMode, parseVars, combVars>>

\* the store starts or stops failing
StoreChanges(mode) ==
    /\ mode # dbMode
    /\ dbMode' = mode
    /\ UNCHANGED <<genVars, parseVars, combVars, names, urlOf, urlState, db, orderKey,
                   isLoaded, sess>>

(***************************************************************************)
(* SpecStore: a first visit with an empty store; imports, reorders,        *)
(* replacements, deletions, de-duplication, clearing and reloads, with the *)
(* store working or failing.  The user drags and deletes when no gallery   *)
(* handler waits for the store.                                            *)
(***************************************************************************)
InitStore ==
    /\ variant \in {1, 2}
    /\ images = <<>>
    /\ files = [id \in 1..MaxStoreImages |-> "ok"]
    /\ settings = DefaultSettings(variant)
    /\ sticker = "none"
    /\ isCancelledRef = FALSE
    /\ loading = FALSE
    /\ generatedBlobs = <<>>
    /\ runs = <<NoRun>>
    /\ imp = "idle"
    /\ ParseIdle
    /\ CombineIdle
    /\ names = <<>>
    /\ urlOf = <<>>
    /\ urlState = NoUrls
    /\ db = NoFiles
    /\ orderKey = SaveOrderEffect(variant, TRUE, <<>>, NoOrder)
    /\ isLoaded = TRUE
    /\ sess = IdleSess
    /\ dbMode \in DbModes

NextStore ==
    \/ ImportFiles
    \/ ImportStep
    \/ sess.pc = "idle" /\ \E from \in 1..Len(images) : \E to \in 1..Len(images) :
                                Reorder(from, to)
    \/ sess.pc = "idle" /\ \E idx \in 1..Len(images) : DeleteImage(idx)
    \/ RemoveDuplicates
    \/ \E idx \in 1..Len(images) : \E file \in FileNames : ReplaceImage(idx, file)
    \/ ReplaceSettled
    \/ ClearStart
    \/ ClearTimer
    \/ \E opens \in BOOLEAN : ClearSettled(opens)
    \/ Reload
    \/ RestoreDone
    \/ \E mode \in DbModes : StoreChanges(mode)

SpecStore == InitStore /\ [][NextStore]_vars

(***************************************************************************)
(* SpecReplace: a first visit with an empty store that works; imports,    *)
(* replacements, and the drags and deletions that run at any time, also    *)
(* while v1's replaceImage waits for its store request.  The user picks a  *)
(* file to import while the gallery shows fewer than MaxStoreImages items  *)
(* and no replace waits; an import under way ends beside a waiting one.    *)
(***************************************************************************)
NextReplace ==
    \/ Len(images) < MaxStoreImages /\ sess.pc = "idle" /\ ImportFiles
    \/ ImportStep
    \/ \E from \in 1..Len(images) : \E to \in 1..Len(images) : Reorder(from, to)
    \/ \E idx \in 1..Len(images) : DeleteImage(idx)
    \/ \E idx \in 1..Len(images) : \E file \in FileNames : ReplaceImage(idx, file)
    \/ ReplaceSettled

InitReplace == InitStore /\ dbMode = "ok"

SpecReplace == InitReplace /\ [][NextReplace]_vars

(***************************************************************************)
(* SpecQuality: the export quality the controls can set (v1: the number    *)
(* input and the preset select, which do not follow each other; v2: the    *)
(* number input), galleries of one to MaxQualityImages images.             *)
(***************************************************************************)
MaxQualityImages == 3

Qualities == {50, 80, 100}

QualityPresets(v) == IF v = 1 THEN {"1.0", "0.80", "custom"} ELSE {"0.80"}

QualitySettings(v) ==
    {[st EXCEPT !.quality = q, !.qualityPreset = p] :
        st \in {DefaultSettings(v),
                [DefaultSettings(v) EXCEPT !.cols = 1, !.groupRows = 1,
                                           !.maskIndices = <<"2">>, !.maskMode = "image"]},
        q \in Qualities, p \in QualityPresets(v)}

InitQuality ==
    /\ variant \in {1, 2}
    /\ \E n \in 1..MaxQualityImages : images = Gallery(n)
    /\ files = [id \in 1..MaxQualityImages |-> "ok"]
    /\ settings \in QualitySettings(variant)
    /\ sticker \in StickerSpace(variant, settings.maskMode)
    /\ isCancelledRef = FALSE
    /\ loading = FALSE
    /\ generatedBlobs = <<>>
    /\ runs = <<NoRun>>
    /\ imp = "idle"
    /\ OthersIdle

NextQuality ==
    \/ NextRun
    \/ \E q \in Qualities : \E p \in QualityPresets(variant) : SetQuality(q, p)
    \/ DownloadZip
    \/ ZipSettled
    \/ DownloadParts
    \/ PartsDone

SpecQuality == InitQuality /\ [][NextQuality]_vars

(***************************************************************************)
(* SpecSurface: the sizes the planner and drawAsync compute over settings  *)
(* the controls can hold: the defaults; one column of tall cells (ratio    *)
(* 1 : 4) with three rows per page, cell 2 masked by the sticker; nine     *)
(* columns with a gap of 10; a very wide ratio (3000 : 1); 150 columns     *)
(* with a gap of 100.  Galleries of one to MaxSurfaceImages images.        *)
(* surface holds the values assigned to canvas.width and canvas.height.    *)
(***************************************************************************)
MaxSurfaceImages == 5

SurfaceSettings(v) ==
    { DefaultSettings(v),
      [DefaultSettings(v) EXCEPT !.cols = 1, !.aspectW = 1, !.aspectH = 4, !.groupRows = 3,
                                 !.maskIndices = <<"2">>, !.maskMode = "image"],
      [DefaultSettings(v) EXCEPT !.cols = 9, !.gap = 10],
      [DefaultSettings(v) EXCEPT !.aspectW = 3000, !.aspectH = 1, !.groupRows = 1],
      [DefaultSettings(v) EXCEPT !.cols = 150, !.gap = 100, !.groupRows = 1] }

InitSurface ==
    /\ variant \in Variants
    /\ \E n \in 1..MaxSurfaceImages : images = Gallery(n)
    /\ files = [id \in 1..MaxSurfaceImages |-> "ok"]
    /\ settings \in SurfaceSettings(variant)
    /\ sticker \in StickerSpace(variant, settings.maskMode)
    /\ isCancelledRef = FALSE
    /\ loading = FALSE
    /\ generatedBlobs = <<>>
    /\ runs = <<NoRun>>
    /\ imp = "idle"
    /\ OthersIdle

SpecSurface == InitSurface /\ [][Next]_vars

(***************************************************************************)
(* SpecThrow: one call over galleries in which any image may decode and    *)
(* then make ctx.drawImage throw (a bitmap the canvas rejects).            *)
(***************************************************************************)
InitThrow ==
    InitGen({"ok", "throws"}, OnePageSettings, 1..MaxImages, Len(<<NoRun>>))
        /\ OthersIdle

SpecThrow == InitThrow /\ [][Next]_vars

(***************************************************************************)
(* SpecBusy: the operations that raise the busy indicator, over galleries  *)
(* of up to MaxBusyImages images any of which may fail to decode, with the *)
(* store working or failing.  The browser runs every timer that was set    *)
(* and settles every decode, encode and store request; what the user does  *)
(* is under no obligation.  The user starts an operation when no other is  *)
(* under way.                                                              *)
(***************************************************************************)
MaxBusyImages == 1   \* most images of a gallery in SpecBusy

\* one column, no mask text, a line or the sticker as the mask
BusySettings ==
    {[st EXCEPT !.maskIndices = <<>>] : st \in {t \in OnePageSettings : t.cols = 1}}

InitBusy ==
    /\ variant \in Variants
    /\ \E n \in 0..MaxBusyImages : images = Gallery(n)
    /\ files \in [1..MaxBusyImages -> {"ok", "fail"}]
    /\ settings \in BusySettings
    /\ sticker \in StickerSpace(variant, settings.maskMode)
    /\ isCancelledRef = FALSE
    /\ loading = FALSE
    /\ generatedBlobs = <<>>
    /\ runs = <<NoRun>>
    /\ imp = "idle"
    /\ OthersIdle

\* the continuations the browser owes: timers, decodes, encodes, requests
Settle ==
    \/ \E r \in DOMAIN runs : Resume50(r)
    \/ \E r \in DOMAIN runs : PageYieldDone(r)
    \/ \E r \in DOMAIN runs : StickerLoaded(r)
    \/ \E r \in DOMAIN runs : \E k \in Decoding(runs[r]) : DecodeDone(r, k)
    \/ \E r \in DOMAIN runs : DelayDone(r)
    \/ \E r \in DOMAIN runs, blob \in BOOLEAN : EncodeDone(r, blob)
    \/ ImportStep
    \/ ClearTimer
    \/ \E opens \in BOOLEAN : ClearSettled(opens)
    \/ \E ok \in BOOLEAN : CombineMeasured(ok)
    \/ \E ok \in BOOLEAN : CombineDrawn(ok)
    \/ \E blob \in BOOLEAN : CombineEncoded(blob)
    \/ ZipSettled
    \/ PartsDone
    \/ \E ok \in BOOLEAN : PreviewOverlayDone(ok)
    \/ PreviewLoaded

\* no operation is under way
Quiet ==
    /\ ~loading
    /\ imp = "idle"
    /\ sess.pc = "idle"
    /\ comb.pc \in {"idle", "done"}
    /\ dl.pc = "idle"
    /\ preview.pc = "idle"
    /\ \A r \in DOMAIN runs : runs[r].pc \in {"none", "done"}

\* what the user does: an operation is started when none is under way, the
\* cancel button pressed while the indicator is up
UserStep ==
    \/ Quiet /\ \E r \in DOMAIN runs, opType \in OpTypes : StartGeneration(r, opType)
    \/ Cancel
    \/ Quiet /\ Len(images) < MaxBusyImages /\ ImportFiles
    \/ Quiet /\ ClearStart
    \/ Quiet /\ CombineStart
    \/ Quiet /\ DownloadZip
    \/ Quiet /\ DownloadParts
    \/ Quiet /\ PreviewOverlay
    \/ Quiet /\ PreviewQuality
    \/ Quiet /\ \E mode \in DbModes : StoreChanges(mode)

NextBusy == Settle \/ UserStep

SpecBusy == InitBusy /\ [][NextBusy]_vars /\ WF_vars(Settle)

(***************************************************************************)
(* SpecParse: every text over Alphabet up to MaxLen characters, and the    *)
(* texts quoted in the documentation.                                      *)
(***************************************************************************)
Alphabet == {"0", "1", "3", "a", "x", ",", " ", "-", "~"}

Texts(n) == UNION {[1..m -> Alphabet] : m \in 0..n}

Examples ==
    { <<"5", ",", " ", "1", "2", ",", " ", "1", "-", "3">>,
      <<"3", "-", "1">>,
      <<"a", "b", "c", ",", " ", "5">>,
      <<"a", "b", "c">>,
      <<"5", "a", "b", "c">>,
      <<"-", "5">>,
      <<"1", "-", "2", "-", "3">>,
      <<"2", "EMDASH", "4">>,
      <<"4", "ENDASH", "2">>,
      <<"7", "FWCOMMA", "8", "DUN", "9">> }

GenIdle ==
    /\ variant = 1
    /\ images = <<>>
    /\ files = [id \in 1..MaxImages |-> "ok"]
    /\ settings = NoSettings
    /\ sticker = "none"
    /\ isCancelledRef = FALSE
    /\ loading = FALSE
    /\ generatedBlobs = <<>>
    /\ runs = <<NoRun>>
    /\ imp = "idle"

InitParse ==
    /\ input \in Texts(MaxLen) \cup Examples
    /\ indices = <<>>
    /\ parsePc = "call"
    /\ GenIdle
    /\ CombineIdle
    /\ StoreSettled

NextParse == ParseCall

SpecParse == InitParse /\ [][NextParse]_vars

(***************************************************************************)
(* What the documentation says a mask text means, stated without the       *)
(* parser: the tokens are the maximal separator-free stretches of the text.*)
(***************************************************************************)
DecimalDigits == <<"0", "1", "2", "3", "4", "5", "6", "7", "8", "9">>

RangeDelimiters == {"-", "~", "EMDASH", "ENDASH"}

IsDecimal(t) == t # <<>> /\ \A k \in 1..Len(t) : t[k] \in Range(DecimalDigits)

RECURSIVE DecimalValue(_)
DecimalValue(t) ==
    IF t = <<>> THEN 0
    ELSE 10 * DecimalValue(SubSeq(t, 1, Len(t) - 1))
            + ((CHOOSE d \in 1..10 : DecimalDigits[d] = t[Len(t)]) - 1)

TokenSpans(text) ==
    {span \in (1..Len(text)) \X (1..Len(text)) :
        /\ span[1] <= span[2]
        /\ \A k \in span[1]..span[2] : ~IsSeparator(text[k])
        /\ span[1] = 1 \/ IsSeparator(text[span[1] - 1])
        /\ span[2] = Len(text) \/ IsSeparator(text[span[2] + 1])}

Tokens(text) == {SubSeq(text, span[1], span[2]) : span \in TokenSpans(text)}

\* the positions at which a token splits into integer, delimiter, integer
RangeSplits(t) ==
    {k \in 2..(Len(t) - 1) :
        /\ t[k] \in RangeDelimiters
        /\ IsDecimal(SubSeq(t, 1, k - 1))
        /\ IsDecimal(SubSeq(t, k + 1, Len(t)))}

WellFormed(t) == IsDecimal(t) \/ RangeSplits(t) # {}

Meaning(t) ==
    IF IsDecimal(t) THEN {DecimalValue(t)}
    ELSE UNION {LET a == DecimalValue(SubSeq(t, 1, k - 1))
                    b == DecimalValue(SubSeq(t, k + 1, Len(t)))
                IN  Min(a, b)..Max(a, b) : k \in RangeSplits(t)}

Text_5_12_1to3 == <<"5", ",", " ", "1", "2", ",", " ", "1", "-", "3">>

Text_3to1 == <<"3", "-", "1">>

(***************************************************************************)
(* C9. parseMaskIndices: a token of two integers joined by one range       *)
(* delimiter yields every integer between the smaller and the larger one,  *)
(* a single integer token yields that integer, and a text made of such     *)
(* tokens yields nothing else; "5, 12, 1-3" yields {1,2,3,5,12} and "3-1"  *)
(* yields {1,2,3}.                                                         *)
(***************************************************************************)
C9_RangesAndIntegers ==
    parsePc = "done" =>
        /\ \A t \in Tokens(input) : WellFormed(t) => Meaning(t) \subseteq Range(indices)
        /\ (\A t \in Tokens(input) : WellFormed(t))
              => Range(indices) = UNION {Meaning(t) : t \in Tokens(input)}
        /\ input = Text_5_12_1to3 => Range(indices) = {1, 2, 3, 5, 12}
        /\ input = Text_3to1 => Range(indices) = {1, 2, 3}

C9_Witness ==
    /\ parsePc = "done"
    /\ input = Text_3to1
    /\ indices = <<1, 2, 3>>

(***************************************************************************)
(* C10. parseMaskIndices skips every token that is not a decimal integer   *)
(* or a two-part range: every integer of the result is the meaning of a    *)
(* well-formed token, so "abc", "5abc", "-5", "1-2-3" contribute nothing   *)
(* and an empty or all-invalid text yields the empty result.               *)
(***************************************************************************)
C10_MalformedSkipped ==
    parsePc = "done" =>
        Range(indices) \subseteq UNION {Meaning(t) : t \in {u \in Tokens(input) : WellFormed(u)}}

(***************************************************************************)
(* Observations of a run used by the properties below.                     *)
(***************************************************************************)
RunIds == DOMAIN runs

IsPrepared(run) == run.pc \notin {"none", "wait50"}

Finished(run) == run.pc = "done" /\ ~run.sawCancel

PositionIn(seq, x) == CHOOSE p \in 1..Len(seq) : seq[p] = x

\* <<p, k>>: cell k of the p-th page handed to the encoder
PageCells(run) ==
    {pk \in (1..Len(run.pages)) \X (1..MaxImages) : pk[2] <= Len(run.pages[pk[1]].cells)}

\* the numbers on the pages, in page order then cell order
NumbersDrawn(run) ==
    Concat([p \in 1..Len(run.pages) |->
               [k \in 1..Len(run.pages[p].cells) |-> run.pages[p].cells[k].num]])

\* c = ceil(n / p)
IsCeiling(c, n, p) == c * p >= n /\ (c - 1) * p < n

(***************************************************************************)
(* C1. If the cancel button is pressed after k >= 1 pages of a run have    *)
(* been encoded and before the run ends, the pages offered to the user     *)
(* afterwards (generatedBlobs) are exactly those k pages.                  *)
(***************************************************************************)
C1_CancelKeepsCompletedPages ==
    \A r \in RunIds :
        (runs[r].pc = "done" /\ runs[r].sawCancel /\ runs[r].atCancel >= 1)
            => generatedBlobs = SubSeq(runs[r].newBlobs, 1, runs[r].atCancel)

(***************************************************************************)
(* C2. If canvas.toBlob yields null for a page, the run reports a          *)
(* generation failure to the caller instead of silently omitting the page. *)
(***************************************************************************)
C2_EncodeFailureReported ==
    \A r \in RunIds :
        (runs[r].pc = "done" /\ runs[r].nullBlobs > 0) => runs[r].alerted

(***************************************************************************)
(* C3. Whatever images of a page fail to decode, drawAsync completes: on   *)
(* the page handed to the encoder every cell is drawn, a cell whose decode *)
(* failed shows the error placeholder and a cell whose decode succeeded    *)
(* shows its image; and a run that was not cancelled has handed every one  *)
(* of its pages to the encoder.                                            *)
(***************************************************************************)
C3_DecodeFailureKeepsPage ==
    \A r \in RunIds :
        LET run == runs[r]
            slice == run.slices[Len(run.slices)]
        IN  /\ run.pc = "toBlob" =>
                  \A k \in 1..Len(run.cells) :
                      /\ run.cells[k].st = "drawn"
                      /\ files[slice[k]] = "fail" => run.cells[k].content = "placeholder"
                      /\ files[slice[k]] = "ok" => run.cells[k].content = "image"
            /\ Finished(run) => Len(run.pages) = run.totalBatches

C3_Witness ==
    \E r \in RunIds :
        /\ runs[r].pc = "toBlob"
        /\ \E k \in 1..Len(runs[r].cells) : runs[r].cells[k].content = "placeholder"
        /\ \E k \in 1..Len(runs[r].cells) : runs[r].cells[k].content = "image"
        /\ \E id \in 1..MaxImages : files[id] = "fail"

(***************************************************************************)
(* C4. No page is encoded from a surface whose drawing was cut short by    *)
(* cancellation: every page among a run's results has all its cells drawn. *)
(***************************************************************************)
C4_NoPartialPageEncoded ==
    \A r \in RunIds :
        \A p \in 1..Len(runs[r].newBlobs) :
            \A k \in 1..Len(runs[r].newBlobs[p].cells) : runs[r].newBlobs[p].cells[k].drawn

(***************************************************************************)
(* C5. For a target list of N items and page capacity P = cols * rows >= 1 *)
(* the loop takes ceil(N/P) slices, every slice has P items except         *)
(* possibly the last, and the slices concatenated in page order are the    *)
(* target list.                                                            *)
(***************************************************************************)
C5_Partition ==
    \A r \in RunIds :
        LET run == runs[r]
            N == Len(run.targets)
            P == run.batchSize
            got == Concat(run.slices)
        IN  (IsPrepared(run) /\ P >= 1) =>
                /\ \A k \in 1..Len(run.slices) :
                      \/ Len(run.slices[k]) = P
                      \/ /\ IsCeiling(k, N, P)
                         /\ Len(run.slices[k]) \in 1..P
                /\ Len(got) <= N /\ got = SubSeq(run.targets, 1, Len(got))
                /\ Finished(run) => IsCeiling(Len(run.slices), N, P) /\ got = run.targets

C5_Witness ==
    \E r \in RunIds :
        /\ Finished(runs[r])
        /\ Len(runs[r].slices) >= 2
        /\ Len(runs[r].slices[Len(runs[r].slices)]) < runs[r].batchSize
        /\ Concat(runs[r].slices) = runs[r].targets

(***************************************************************************)
(* C6. In repack mode the items drawn are exactly the gallery items whose  *)
(* sequence number startNumber + position is not in the mask set, in       *)
(* gallery order, and they are numbered contiguously from startNumber.     *)
(***************************************************************************)
C6_Repack ==
    \A r \in RunIds :
        LET run == runs[r]
            G == run.images
            T == run.targets
            start == run.settings.startNumber
            mask == Range(run.maskIndices)
        IN  (run.opType = "repack" /\ IsPrepared(run)) =>
                /\ \A p \in 1..Len(G) :
                      (\E q \in 1..Len(T) : T[q] = G[p]) <=> (start + p - 1) \notin mask
                /\ \A q1, q2 \in 1..Len(T) :
                      q1 < q2 => PositionIn(G, T[q1]) < PositionIn(G, T[q2])
                /\ \A pk \in PageCells(run) :
                      LET page == run.pages[pk[1]]
                      IN  page.cells[pk[2]].numbered =>
                              page.cells[pk[2]].num
                                  = start + PositionIn(T, page.items[pk[2]]) - 1

C6_Witness ==
    \E r \in RunIds :
        /\ Finished(runs[r])
        /\ runs[r].opType = "repack"
        /\ runs[r].settings.startNumber = 1
        /\ Range(runs[r].maskIndices) = {2}
        /\ runs[r].images = Gallery(MaxImages)
        /\ runs[r].targets = <<1>> \o [k \in 1..(MaxImages - 2) |-> k + 2]
        /\ NumbersDrawn(runs[r]) = [k \in 1..(MaxImages - 1) |-> k]

(***************************************************************************)
(* C7 (as stated). In every generation mode, a mask is drawn on local cell *)
(* i of the page with global offset g if and only if startNumber + g + i   *)
(* is in the parsed mask index set.                                        *)
(***************************************************************************)
C7_MaskIffMember_AsStated ==
    \A r \in RunIds :
        \A pk \in PageCells(runs[r]) :
            LET page == runs[r].pages[pk[1]]
                cell == page.cells[pk[2]]
            IN  cell.drawn =>
                    (cell.mask <=>
                        (runs[r].settings.startNumber + page.offset + pk[2] - 1)
                            \in Range(runs[r].maskIndices))

\* masks are drawn at all: variant 2 draws none in repack mode (applyMask),
\* and sticker mode draws only a loaded sticker
MasksInEffect(run) ==
    /\ variant = 2 => run.opType # "repack"
    /\ run.settings.maskMode = "line" \/ run.sticker = "ok"

(***************************************************************************)
(* C7 (amended). A mask is drawn on local cell i of the page with global   *)
(* offset g if and only if startNumber + g + i is in the parsed mask index *)
(* set and masks are in effect: the mode is not variant 2's repack, and    *)
(* the mask mode is line or a sticker image is loaded.  g + i is the       *)
(* item's 0-based position in the target list.                             *)
(***************************************************************************)
C7_MaskIffMemberInEffect ==
    \A r \in RunIds :
        \A pk \in PageCells(runs[r]) :
            LET page == runs[r].pages[pk[1]]
                cell == page.cells[pk[2]]
                seqNo == runs[r].settings.startNumber
                             + PositionIn(runs[r].targets, page.items[pk[2]]) - 1
            IN  cell.drawn =>
                    (cell.mask <=>
                        (seqNo \in Range(runs[r].maskIndices) /\ MasksInEffect(runs[r])))

C7_Witness ==
    \E r \in RunIds :
        /\ variant = 2
        /\ runs[r].opType = "apply"
        /\ runs[r].pc = "toBlob"
        /\ \E pk \in PageCells(runs[r]) : runs[r].pages[pk[1]].cells[pk[2]].mask
        /\ \E pk \in PageCells(runs[r]) :
              /\ runs[r].pages[pk[1]].cells[pk[2]].drawn
              /\ ~runs[r].pages[pk[1]].cells[pk[2]].mask

(***************************************************************************)
(* C8. Numbering is continuous across pages: the number drawn on local     *)
(* cell i of the page with global offset g is startNumber + g + i, and the *)
(* numbers of one run, in page order then cell order, are startNumber,     *)
(* startNumber + 1, ... without gap or repeat, up to startNumber + N - 1   *)
(* when the run completes.                                                 *)
(***************************************************************************)
C8_ContinuousNumbering ==
    \A r \in RunIds :
        LET run == runs[r]
            nums == NumbersDrawn(run)
        IN  run.settings.showNum =>
                /\ \A pk \in PageCells(run) :
                      run.pages[pk[1]].cells[pk[2]].numbered =>
                          run.pages[pk[1]].cells[pk[2]].num
                              = run.settings.startNumber + run.pages[pk[1]].offset + pk[2] - 1
                /\ \A j \in 1..Len(nums) : nums[j] = run.settings.startNumber + j - 1
                /\ Finished(run) => Len(nums) = Len(run.targets)

C8_Witness ==
    \E r \in RunIds :
        /\ Finished(runs[r])
        /\ runs[r].settings.showNum
        /\ runs[r].settings.startNumber = 2
        /\ Len(runs[r].pages) >= 2
        /\ NumbersDrawn(runs[r]) = [j \in 1..Len(runs[r].targets) |-> j + 1]

(***************************************************************************)
(* The limits a page surface is held against: variant 1 plans its pages    *)
(* with MAX_CANVAS_DIM and SAFE_H; variant 2 configures one limit, the     *)
(* width limit MAX_CANVAS_DIMENSION, and no height limit of its own, so    *)
(* its pages are held against the largest height limit of the repository.  *)
(***************************************************************************)
MaxPageWidth(v) == IF v = 1 THEN MAX_CANVAS_DIM ELSE MAX_CANVAS_DIMENSION_IKKO

SafePageHeight(v) == IF v = 1 THEN SAFE_H ELSE MAX_SAFE_HEIGHT

(***************************************************************************)
(* C11. Under the default settings (3 columns, gap 0, the default aspect   *)
(* ratio, rows per page 0) and for any number of gallery images, every     *)
(* page surface handed to the encoder has width and height within the      *)
(* safe limits.                                                            *)
(***************************************************************************)
C11_PagesWithinSafeLimits ==
    \A r \in RunIds :
        runs[r].settings = DefaultSettings(variant) =>
            \A p \in 1..Len(runs[r].pages) :
                /\ runs[r].pages[p].surface.w <= MaxPageWidth(variant)
                /\ runs[r].pages[p].surface.h <= SafePageHeight(variant)

(***************************************************************************)
(* C12. When rows per page is 0, the row count r that variant 1 computes   *)
(* is the largest that fits: r * (cellH + gap) <= SAFE_H + gap and         *)
(* (r + 1) * (cellH + gap) > SAFE_H + gap, with cellH the cell height      *)
(* drawAsync uses; or r = 1 when not even one row fits.                    *)
(***************************************************************************)
C12_AutoRowsMaximal ==
    \A r \in RunIds :
        LET run == runs[r]
            st == run.settings
            rows == run.batchSize \div st.cols
            step == CellH(1, st) + st.gap
        IN  (variant = 1 /\ IsPrepared(run) /\ st.groupRows = 0) =>
                \/ rows * step <= SAFE_H + st.gap /\ (rows + 1) * step > SAFE_H + st.gap
                \/ rows = 1 /\ step > SAFE_H + st.gap

(***************************************************************************)
(* The ceilings of the combine step: variant 1 has a height ceiling and a  *)
(* pixel ceiling, variant 2 a pixel ceiling only (its output is held       *)
(* against variant 1's height ceiling).                                    *)
(***************************************************************************)
HeightCeiling == MAX_SAFE_TOTAL_HEIGHT

PixelCeiling(v) == IF v = 1 THEN PIXEL_LIMIT ELSE IKKO_PIXEL_LIMIT

\* the pages were measured and their sum passes a ceiling
CombineOverLimit ==
    /\ comb.maxW > 0
    /\ comb.totalH > HeightCeiling \/ comb.maxW * comb.totalH > PixelCeiling(variant)

(***************************************************************************)
(* C13. Vertical combine: whenever the summed page height passes the       *)
(* height ceiling or width * totalHeight passes the pixel ceiling, the     *)
(* combine does not fail on it but scales width and height by one factor   *)
(* (the smaller of the two limiting ratios), and the output canvas has     *)
(* height <= the height ceiling and width * height <= the pixel ceiling.   *)
(***************************************************************************)
C13_CombineDownscales ==
    CombineOverLimit =>
        /\ comb.scale \in {"height", "pixels"}
        /\ comb.h <= HeightCeiling
        /\ comb.w * comb.h <= PixelCeiling(variant)
        /\ comb.w * comb.totalH - comb.h * comb.maxW > -comb.totalH
        /\ comb.w * comb.totalH - comb.h * comb.maxW < comb.maxW

(***************************************************************************)
(* C14: the gallery a reload restores is the order persisted last,         *)
(* restricted to the ids whose payload could be loaded (the restoration    *)
(* having found the gallery empty, as it is after the mount).              *)
(***************************************************************************)
C14_RestoredInPersistedOrder ==
    LET Loadable(id) == id \in sess.loaded
    IN (sess.last.op = "restore" /\ sess.last.n = 0)
          => images = SelectSeq(sess.persisted.ids, Loadable)

(***************************************************************************)
(* C15: a gallery handler whose persistence operation failed has still     *)
(* applied its mutation to the in-memory gallery: the imported item is     *)
(* appended, the replaced item holds the new file, the deleted item and    *)
(* the duplicates are gone, the cleared gallery is empty.                  *)
(***************************************************************************)
C15_MutationAppliedDespiteFailure ==
    LET l == sess.last
    IN l.failed =>
         CASE l.op = "import" -> Len(images) = l.n + 1 /\ images[Len(images)] = l.id
           [] l.op = "replace" -> \E k \in 1..Len(images) : images[k] = l.id /\ names[k] = l.file
           [] l.op = "delete" -> Len(images) = l.n - 1 /\ l.id \notin Range(images)
           [] l.op = "dedup" ->
                /\ Len(images) < l.n
                /\ \A i, j \in 1..Len(images) : i # j => names[i] # names[j]
           [] l.op = "clear" -> images = <<>>
           [] OTHER -> TRUE

(***************************************************************************)
(* C16: every page is encoded as image/png exactly when the export quality *)
(* is 100, and otherwise as image/jpeg at quality / 100.                   *)
(***************************************************************************)
C16_PngExactlyAtFullQuality ==
    \A r \in DOMAIN runs :
        \A p \in 1..Len(runs[r].pages) :
            LET page == runs[r].pages[p]
                quality == runs[r].settings.quality
            IN IF quality = 100
               THEN page.mimeType = "image/png"
               ELSE page.mimeType = "image/jpeg" /\ page.qVal = quality

(***************************************************************************)
(* C17: within a page the cells are drawn in gallery order, whatever the   *)
(* order in which the decodes complete: no draw call of a cell follows a   *)
(* draw call of a later cell.                                              *)
(***************************************************************************)
C17_CellsDrawnInGalleryOrder ==
    \A r \in DOMAIN runs :
        \A i, j \in 1..Len(runs[r].log) :
            i < j => runs[r].log[i].cell <= runs[r].log[j].cell

(***************************************************************************)
(* C18: the draw sequence of one cell (image or placeholder, then number,  *)
(* then mask) is not interleaved with a draw call of another cell.         *)
(***************************************************************************)
DrawRank(op) == CASE op = "number" -> 2 [] op = "mask" -> 3 [] OTHER -> 1

C18_CellDrawSequenceAtomic ==
    \A r \in DOMAIN runs :
        LET log == runs[r].log
        IN  \A i, j \in 1..Len(log) :
                (i < j /\ log[i].cell = log[j].cell) =>
                    /\ \A m \in i..j : log[m].cell = log[i].cell
                    /\ DrawRank(log[i].op) < DrawRank(log[j].op)

C18_Witness ==
    \E r \in DOMAIN runs :
        LET log == runs[r].log
            CallsOf(c) == {i \in 1..Len(log) : log[i].cell = c}
        IN  /\ runs[r].pc = "toBlob"
            /\ Cardinality(CallsOf(0)) >= 2
            /\ \E c \in 1..MaxImages : Cardinality(CallsOf(c)) = 3

(***************************************************************************)
(* C19: a run that was cancelled hands no further page to the encoder and  *)
(* never publishes its results, also when a later startGeneration /        *)
(* generate (or, in variant 2, a file import) resets the cancel flag; and  *)
(* no run publishes after a run started later has published.               *)
(***************************************************************************)
C19_CancelledRunStaysCancelled ==
    [][\A r \in DOMAIN runs :
          /\ runs[r].atCancel >= 0 =>
                /\ Len(runs'[r].pages) = Len(runs[r].pages)
                /\ runs'[r].published => runs[r].published
          /\ (\E q \in DOMAIN runs : q > r /\ runs[q].published) =>
                (runs'[r].published => runs[r].published)]_vars

(***************************************************************************)
(* C20 as stated: the global offset of every page is the index of its      *)
(* first item in the gallery as it was before the filter, and the numbers  *)
(* drawn are the items' sequence numbers before the filter.                *)
(***************************************************************************)
C20_OffsetInGallery_AsStated ==
    \A r \in RunIds :
        \A p \in 1..Len(runs[r].pages) :
            LET run == runs[r]
                page == run.pages[p]
            IN  /\ page.offset = PositionIn(run.images, page.items[1]) - 1
                /\ \A k \in 1..Len(page.cells) :
                      page.cells[k].numbered =>
                          page.cells[k].num = run.settings.startNumber
                                                + PositionIn(run.images, page.items[k]) - 1

(***************************************************************************)
(* C20 amended: the global offset of every page is the index of its first  *)
(* item in the target list of the run (the gallery in normal and apply     *)
(* mode, the filtered gallery in repack mode) and the numbers drawn are    *)
(* startNumber plus the items' positions in the target list; they are the  *)
(* sequence numbers before the filter in normal and apply mode.            *)
(***************************************************************************)
C20_OffsetInTargetList ==
    \A r \in RunIds :
        \A p \in 1..Len(runs[r].pages) :
            LET run == runs[r]
                page == run.pages[p]
            IN  /\ page.offset = PositionIn(run.targets, page.items[1]) - 1
                /\ \A k \in 1..Len(page.cells) :
                      page.cells[k].numbered =>
                          page.cells[k].num = run.settings.startNumber
                                                + PositionIn(run.targets, page.items[k]) - 1
                /\ run.opType # "repack" =>
                      /\ page.offset = PositionIn(run.images, page.items[1]) - 1
                      /\ \A k \in 1..Len(page.cells) :
                            page.cells[k].numbered =>
                                page.cells[k].num = run.settings.startNumber
                                    + PositionIn(run.images, page.items[k]) - 1

C20_Witness ==
    \E r \in RunIds :
        LET run == runs[r]
        IN  /\ Finished(run)
            /\ run.opType = "repack"
            /\ run.settings.showNum
            /\ Len(run.targets) < Len(run.images)
            /\ Len(run.pages) >= 2
            /\ \E p \in 2..Len(run.pages) :
                  /\ run.pages[p].offset = PositionIn(run.targets, run.pages[p].items[1]) - 1
                  /\ run.pages[p].offset < PositionIn(run.images, run.pages[p].items[1]) - 1
                  /\ run.pages[p].offset > p - 1

(***************************************************************************)
(* The size drawAsync computes for a page of len cells: columns * cell     *)
(* width + (columns - 1) * gap by rows * cell height + (rows - 1) * gap.   *)
(***************************************************************************)
ComputedSize(st, len) ==
    LET rows == CeilDiv(len, st.cols)
    IN  [w |-> st.cols * CellW(variant, st) + (st.cols - 1) * st.gap,
         h |-> rows * CellH(variant, st) + (rows - 1) * st.gap]

(***************************************************************************)
(* C21 as stated: every page surface is set to exactly the computed size.  *)
(***************************************************************************)
C21_SurfaceExact_AsStated ==
    \A r \in RunIds :
        \A p \in 1..Len(runs[r].pages) :
            runs[r].pages[p].surface
                = ComputedSize(runs[r].settings, Len(runs[r].pages[p].items))

(***************************************************************************)
(* C21 amended: every page surface is set to exactly the computed size,    *)
(* except that variant 1, when the computed height is above                *)
(* MAX_SAFE_HEIGHT, sets the height to MAX_SAFE_HEIGHT and the width to    *)
(* the computed width scaled by MAX_SAFE_HEIGHT / computed height, rounded *)
(* down.                                                                   *)
(***************************************************************************)
C21_SurfaceExactOrScaled ==
    \A r \in RunIds :
        \A p \in 1..Len(runs[r].pages) :
            LET page == runs[r].pages[p]
                size == ComputedSize(runs[r].settings, Len(page.items))
            IN  IF variant = 1 /\ size.h > MAX_SAFE_HEIGHT
                THEN /\ page.surface.h = MAX_SAFE_HEIGHT
                     /\ page.surface.w * size.h <= size.w * MAX_SAFE_HEIGHT
                     /\ (page.surface.w + 1) * size.h > size.w * MAX_SAFE_HEIGHT
                ELSE page.surface = size

C21_Witness ==
    \E r \in RunIds :
        /\ variant = 1
        /\ Finished(runs[r])
        /\ Len(runs[r].pages) = 2
        /\ runs[r].pages[1].surface.h = MAX_SAFE_HEIGHT
        /\ runs[r].pages[1].surface.w < ComputedSize(runs[r].settings, 3).w
        /\ runs[r].pages[2].surface = ComputedSize(runs[r].settings, 2)

(***************************************************************************)
(* C26: all pages one run hands to the encoder have the same pixel width,  *)
(* the width of its first page.                                            *)
(***************************************************************************)
C26_PagesUniformWidth ==
    \A r \in RunIds :
        \A p \in 1..Len(runs[r].pages) :
            runs[r].pages[p].surface.w = runs[r].pages[1].surface.w

(***************************************************************************)
(* C30: for settings with at least one column, a gap of at least 0 and an  *)
(* aspect ratio above 0, the cell width and the cell height a run plans    *)
(* its pages with are at least 1.                                          *)
(***************************************************************************)
C30_CellAtLeastOnePixel ==
    \A r \in RunIds :
        LET st == runs[r].settings
        IN  (IsPrepared(runs[r]) /\ st.cols >= 1 /\ st.gap >= 0
                /\ st.aspectW > 0 /\ st.aspectH > 0) =>
                /\ CellW(variant, st) >= 1
                /\ CellH(variant, st) >= 1

(***************************************************************************)
(* C22: a replace that takes effect changes only the entry it was asked    *)
(* to replace: the gallery keeps its length and, position by position, its *)
(* ids; the entries of other ids keep their files; the entry of the        *)
(* replaced id holds the new file.  This also when a deletion, a drag or   *)
(* an import ran while the replace waited for its store write.             *)
(***************************************************************************)
ReplaceTakesEffect ==
    /\ sess'.last.op = "replace"
    /\ ~sess'.last.failed
    /\ IF variant = 1 THEN sess.pc = "replace" /\ sess'.pc = "idle"
       ELSE names' # names \/ urlState' # urlState \/ sess'.last # sess.last

C22_ReplaceChangesOnlyTarget ==
    [][ReplaceTakesEffect =>
          /\ Len(images') = Len(images)
          /\ \A k \in 1..Len(images) :
                /\ images'[k] = images[k]
                /\ names'[k] = IF images[k] = sess'.last.id THEN sess'.last.file ELSE names[k]]_vars

(***************************************************************************)
(* C23: an object URL is revoked at most once; the URL a gallery item      *)
(* shows is not revoked; and after a deletion, a de-duplication, a clear   *)
(* or a replace, every URL that no gallery item shows and no pending       *)
(* handler holds has been revoked: the URL of the item that was deleted,   *)
(* removed as a duplicate, cleared or replaced, and the URL made for a     *)
(* replace that did not go through.                                        *)
(***************************************************************************)
C23_UrlsRevokedExactlyOnce ==
    /\ \A id \in DOMAIN urlState : \A v \in UrlVersions : urlState[id][v] # "twice"
    /\ \A k \in 1..Len(images) : urlState[images[k]][urlOf[k]] = "live"
    /\ sess.last.op \in {"delete", "dedup", "clear", "replace"} =>
          \A id \in DOMAIN urlState : \A v \in UrlVersions :
              urlState[id][v] = "live" =>
                  <<id, v>> \in ShownUrls(images, urlOf) \cup HeldUrls(sess)

(***************************************************************************)
(* C24: removeDuplicates leaves, in their order, exactly the gallery items *)
(* that are the first of their (name, size) pair, so that items whose      *)
(* names differ or whose sizes differ are all kept; with the store working *)
(* the removed items are gone from the store; and a second                 *)
(* removeDuplicates would remove nothing.                                  *)
(***************************************************************************)
FirstOfPair(nm) ==
    {k \in 0..(Len(nm) - 1) : \A j \in 0..(k - 1) : nm[j + 1] # nm[k + 1]}

C24_DedupKeepsFirstOfEachPair ==
    [][(sess'.last.op = "dedup" /\ Len(images') < Len(images)) =>
          /\ images' = FilterSeq(images, FirstOfPair(names), 0)
          /\ names' = FilterSeq(names, FirstOfPair(names), 0)
          /\ dbMode = "ok" =>
                \A id \in Range(images) \ Range(images') : id \notin DOMAIN db'
          /\ FirstOfKey(names') = 0..(Len(names') - 1)]_vars

(***************************************************************************)
(* C25: every page file a download names (ZIP entry or page file) has the  *)
(* extension of the MIME type its blob was encoded with: png for           *)
(* image/png, jpg for image/jpeg.                                          *)
(***************************************************************************)
C25_ExtensionMatchesMimeType ==
    \A f \in dl.files : f.ext = (IF f.mimeType = "image/png" THEN "png" ELSE "jpg")

\* C27: whenever drawAsync has exited -- normally (the page is with toBlob),
\* on cancellation or through a draw call that threw -- the call has left no
\* ctx.save() unmatched and no clip region or shadow set.
C27_ContextRestoredOnExit ==
    \A r \in DOMAIN runs :
        runs[r].pc \in {"toBlob", "done"} => runs[r].ctx = NoCtx

\* the decode window of the variant's drawAsync
Window == IF variant = 1 THEN CONCURRENCY ELSE CONCURRENCY_LIMIT

\* C29: during a page the decodes in flight never outnumber the window of
\* the variant's drawAsync, whatever the page size and the order in which
\* the decodes settle.
C29_DecodesWithinWindow ==
    \A r \in DOMAIN runs : Cardinality(Decoding(runs[r])) <= Window

\* a page larger than the window, with a cell already drawn and the window
\* full again
C29_Witness ==
    \E r \in DOMAIN runs :
        /\ Len(runs[r].cells) > Window
        /\ Cardinality(Decoding(runs[r])) = Window
        /\ \E k \in 1..Len(runs[r].cells) : runs[r].cells[k].st = "drawn"

\* C28: a raised busy indicator is lowered again: no operation leaves it up
\* for ever, however its decode, encode or store steps end.
C28_BusyIndicatorLowered == loading ~> ~loading

====
